---- MODULE Spec2Model ----
(***************************************************************************)
(* gdrive4d: the Discord bot that keeps one "embeds message" (a shadow)    *)
(* per source message that links Google Drive files.                       *)
(*                                                                         *)
(* Strings are sequences of UTF-16 code units, as JavaScript strings are.  *)
(***************************************************************************)
EXTENDS Integers, Sequences, FiniteSets, TLC

(***************************************************************************)
(* util/invisible: the correlation codec (src/unnamed/part_001)            *)
(***************************************************************************)

\* invisibleChars[i] = 0x2060 + i for i in 0..15 (the 0x200b substitution is
\* commented out in the source).
InvisibleBase == 8288
InvisibleCount == 16

invisibleChars == [i \in 0..(InvisibleCount - 1) |-> InvisibleBase + i]

IsInvisible(u) == \E i \in DOMAIN invisibleChars : invisibleChars[i] = u

\* invisibleChars.indexOf(codepoint); -1 when absent
InvisibleIndexOf(u) ==
    IF IsInvisible(u) THEN CHOOSE i \in DOMAIN invisibleChars : invisibleChars[i] = u
    ELSE -1

ReplacementChar == 65533
ByteOrderMark == 65279

IsHighSurrogate(u) == u >= 55296 /\ u <= 56319
IsLowSurrogate(u) == u >= 56320 /\ u <= 57343

\* Iteration of a string by code points (Array.from(str), String iterator):
\* a well-formed surrogate pair is one code point, a lone surrogate is itself.
RECURSIVE CodePointsFrom(_, _)
CodePointsFrom(s, i) ==
    IF i > Len(s) THEN <<>>
    ELSE IF IsHighSurrogate(s[i]) /\ i < Len(s) /\ IsLowSurrogate(s[i + 1])
         THEN <<65536 + (s[i] - 55296) * 1024 + (s[i + 1] - 56320)>>
              \o CodePointsFrom(s, i + 2)
         ELSE <<s[i]>> \o CodePointsFrom(s, i + 1)

CodePoints(s) == CodePointsFrom(s, 1)

\* String.fromCodePoint(...cps): code points back to UTF-16 code units
RECURSIVE FromCodePoints(_)
FromCodePoints(cps) ==
    IF cps = <<>> THEN <<>>
    ELSE LET c == Head(cps)
         IN (IF c >= 65536
             THEN <<55296 + ((c - 65536) \div 1024), 56320 + ((c - 65536) % 1024)>>
             ELSE <<c>>) \o FromCodePoints(Tail(cps))

\* UTF-8 bytes of one scalar value
Utf8OfScalar(c) ==
    IF c < 128 THEN <<c>>
    ELSE IF c < 2048 THEN <<192 + (c \div 64), 128 + (c % 64)>>
    ELSE IF c < 65536
         THEN <<224 + (c \div 4096), 128 + ((c \div 64) % 64), 128 + (c % 64)>>
         ELSE <<240 + (c \div 262144), 128 + ((c \div 4096) % 64),
                128 + ((c \div 64) % 64), 128 + (c % 64)>>

\* new TextEncoder().encode(str): lone surrogates become U+FFFD, then UTF-8
RECURSIVE Utf8OfCodePoints(_)
Utf8OfCodePoints(cps) ==
    IF cps = <<>> THEN <<>>
    ELSE LET c == Head(cps)
             usv == IF IsHighSurrogate(c) \/ IsLowSurrogate(c) THEN ReplacementChar ELSE c
         IN Utf8OfScalar(usv) \o Utf8OfCodePoints(Tail(cps))

TextEncode(str) == Utf8OfCodePoints(CodePoints(str))

\* UTF-8 decoding with replacement of ill-formed sequences (WHATWG decoder)
RECURSIVE Utf8DecodeFrom(_, _)
Utf8DecodeFrom(b, i) ==
    IF i > Len(b) THEN <<>>
    ELSE LET b0 == b[i]
             need == IF b0 < 128 THEN 0
                     ELSE IF b0 >= 194 /\ b0 <= 223 THEN 1
                     ELSE IF b0 >= 224 /\ b0 <= 239 THEN 2
                     ELSE IF b0 >= 240 /\ b0 <= 244 THEN 3
                     ELSE -1
             lo1 == IF b0 = 224 THEN 160 ELSE IF b0 = 240 THEN 144 ELSE 128
             hi1 == IF b0 = 237 THEN 159 ELSE IF b0 = 244 THEN 143 ELSE 191
             ok(k) == /\ i + k <= Len(b)
                      /\ b[i + k] >= (IF k = 1 THEN lo1 ELSE 128)
                      /\ b[i + k] <= (IF k = 1 THEN hi1 ELSE 191)
             good == IF need >= 1 /\ ok(1)
                     THEN IF need >= 2 /\ ok(2)
                          THEN IF need >= 3 /\ ok(3) THEN 3 ELSE 2
                          ELSE 1
                     ELSE 0
             cp == IF need = 1 THEN (b0 - 192) * 64 + (b[i + 1] - 128)
                   ELSE IF need = 2
                        THEN (b0 - 224) * 4096 + (b[i + 1] - 128) * 64 + (b[i + 2] - 128)
                        ELSE (b0 - 240) * 262144 + (b[i + 1] - 128) * 4096
                             + (b[i + 2] - 128) * 64 + (b[i + 3] - 128)
         IN IF need = -1 THEN <<ReplacementChar>> \o Utf8DecodeFrom(b, i + 1)
            ELSE IF need = 0 THEN <<b0>> \o Utf8DecodeFrom(b, i + 1)
            ELSE IF good = need THEN <<cp>> \o Utf8DecodeFrom(b, i + need + 1)
            ELSE <<ReplacementChar>> \o Utf8DecodeFrom(b, i + good + 1)

\* new TextDecoder().decode(bytes): ignoreBOM is false, so a leading BOM is dropped
TextDecode(bytes) ==
    LET cps == Utf8DecodeFrom(bytes, 1)
    IN FromCodePoints(IF cps # <<>> /\ Head(cps) = ByteOrderMark THEN Tail(cps) ELSE cps)

\* .flatMap((byte) => [byte >> 4, byte & 0xf])
RECURSIVE NibblesOf(_)
NibblesOf(bytes) ==
    IF bytes = <<>> THEN <<>>
    ELSE <<Head(bytes) \div 16, Head(bytes) % 16>> \o NibblesOf(Tail(bytes))

\* encode(str)
encode(str) ==
    LET nibbles == NibblesOf(TextEncode(str))
    IN FromCodePoints([k \in 1..Len(nibbles) |-> invisibleChars[nibbles[k]]])

\* the byte loop of decode: Uint8Array(nibbles.length / 2) truncates the length,
\* for (i = 0; i < nibbles.length - 1; i += 2)
BytesOfNibbles(nibbles) ==
    [k \in 1..(Len(nibbles) \div 2) |-> nibbles[2 * k - 1] * 16 + nibbles[2 * k]]

\* decode(encoded): [ok |-> FALSE] models the thrown Error
decode(encoded) ==
    LET cps == CodePoints(encoded)
    IN IF \E k \in 1..Len(cps) : InvisibleIndexOf(cps[k]) = -1
       THEN [ok |-> FALSE, val |-> <<>>]
       ELSE [ok |-> TRUE,
             val |-> TextDecode(BytesOfNibbles([k \in 1..Len(cps) |-> InvisibleIndexOf(cps[k])]))]

\* appendInvisible(visible, invisible)
appendInvisible(visible, invisible) == visible \o encode(invisible)

\* Math.min(...indexes of the reserved characters found in text); Infinity when
\* none occurs, and text.substring(Infinity) is the empty string
IndexOfInvisible(text) ==
    IF \E k \in 1..Len(text) : IsInvisible(text[k])
    THEN CHOOSE k \in 1..Len(text) :
            /\ IsInvisible(text[k])
            /\ \A j \in 1..(k - 1) : ~IsInvisible(text[j])
    ELSE Len(text) + 1

\* mutant: a text without reserved code point is a decoding error
decodeAppendedInvisible_Strict(text) ==
    IF \E k \in 1..Len(text) : IsInvisible(text[k])
    THEN decode(SubSeq(text, IndexOfInvisible(text), Len(text)))
    ELSE [ok |-> FALSE, val |-> <<>>]

\* decodeAppendedInvisible(text)
decodeAppendedInvisible(text) ==
    decode(SubSeq(text, IndexOfInvisible(text), Len(text)))


(***************************************************************************)
(* Bounds of the model                                                     *)
(***************************************************************************)
MaxEvents == 3
MaxHandlers == 2
MaxSources == 2
MaxChatter == 1

(***************************************************************************)
(* Program constants                                                       *)
(***************************************************************************)
\* channel.messages.fetch({ after: sourceId, limit: 10 })
HistoryLimit == 10
\* retrieveOldEmbedsMessage(sourceMessage, 2)
UpdateRetries == 2
\* retrieveOldEmbedsMessage(sourceMessage): maxRetries = 0
DeleteRetries == 0

(***************************************************************************)
(* State                                                                   *)
(*  channel   the channel's messages, oldest first; a message's id is its  *)
(*            position (ids are time-ordered snowflakes). A deleted        *)
(*            message stays as a tombstone with live = FALSE.              *)
(*  handlers  the in-progress and finished listener invocations            *)
(*  events    number of listener invocations started so far               *)
(*  ghost     history variables per message (not program state): the       *)
(*            outcome of the last handler that ran for it, whether two     *)
(*            handlers for it ever ran at the same time, whether a user    *)
(*            edited it, and the sends, edits, deletes and toggles that   *)
(*            the runs of updateEmbedsMessage for it have issued          *)
(*  codec     the codec under test in CodecSpec                            *)
(***************************************************************************)
VARIABLES channel, handlers, events, ghost, codec

vars == <<channel, handlers, events, ghost, codec>>

(***************************************************************************)
(* The metadata provider (driveClient.files.get), fixed during a behaviour *)
(***************************************************************************)
FileIds == {"fA", "fB", "fJ", "fX", "fN", "fE", "fM", "fT"}

Rfc3339(n) == [instant |-> n, fmt |-> "rfc3339"]

DriveGet(f) ==
    CASE f = "fA" -> [status |-> "ok", name |-> <<65>>, webViewLink |-> "viewA",
                      mimeType |-> "application/vnd.google-apps.document",
                      modifiedTime |-> Rfc3339(1)]
      [] f = "fB" -> [status |-> "ok", name |-> <<66>>, webViewLink |-> "viewB",
                      mimeType |-> "image/png", modifiedTime |-> Rfc3339(2)]
      \* a name that ends with a reserved code point (U+2060 WORD JOINER)
      [] f = "fJ" -> [status |-> "ok", name |-> <<74, 8288>>, webViewLink |-> "viewJ",
                      mimeType |-> "image/png", modifiedTime |-> Rfc3339(1)]
      \* a name with a reserved code point (U+2066) before a visible letter
      [] f = "fX" -> [status |-> "ok", name |-> <<8294, 88>>, webViewLink |-> "viewX",
                      mimeType |-> "image/png", modifiedTime |-> Rfc3339(1)]
      \* GaxiosError with reason notFound
      [] f = "fN" -> [status |-> "notFound", name |-> <<>>, webViewLink |-> "",
                      mimeType |-> "", modifiedTime |-> Rfc3339(0)]
      \* any other error
      [] f = "fE" -> [status |-> "error", name |-> <<>>, webViewLink |-> "",
                      mimeType |-> "", modifiedTime |-> Rfc3339(0)]
      \* a response without modifiedTime
      [] f = "fT" -> [status |-> "ok", name |-> <<84>>, webViewLink |-> "viewT",
                      mimeType |-> "image/png",
                      modifiedTime |-> [instant |-> 0, fmt |-> "absent"]]
      \* a response without name
      [] OTHER -> [status |-> "ok", name |-> <<>>, webViewLink |-> "viewM",
                   mimeType |-> "image/png", modifiedTime |-> Rfc3339(3)]

\* fileTypes of ./gdrive: MIME type -> color, with the entry "others"
FileTypeColor(mime) ==
    IF mime = "application/vnd.google-apps.document" THEN "docColor" ELSE "none"

\* (Object.values(fileTypes).find(({ mime }) => mime === mimeType) ?? fileTypes.others).color
ColorOf(mime) ==
    IF FileTypeColor(mime) # "none" THEN FileTypeColor(mime) ELSE "othersColor"

\* new Date(str).getTime(): the instant a timestamp string denotes
DateParse(ts) == ts.instant

\* EmbedBuilder#setTimestamp(date): date.toISOString()
ToISOString(instant) == [instant |-> instant, fmt |-> "iso"]

(***************************************************************************)
(* Message ids and contents                                                *)
(***************************************************************************)
RECURSIVE Digits(_)
Digits(n) == IF n < 10 THEN <<48 + n>> ELSE Digits(n \div 10) \o <<48 + (n % 10)>>

\* the id of the message at position i, as the decimal string Discord uses
IdStr(i) == Digits(i)

\* A content is the sequence of the links written in it. A link is a Drive
\* link with a file id of at least 25 characters (drive = TRUE) or some other
\* link (drive = FALSE), which the regex of extractFileIds does not match.
DriveLink(f, scheme, query) ==
    [drive |-> TRUE, fileId |-> f, url |-> [scheme |-> scheme, file |-> f, query |-> query]]

OtherLink == [drive |-> FALSE, fileId |-> "", url |-> [scheme |-> "https", file |-> "other", query |-> FALSE]]

Contents ==
    { <<>>,
      <<DriveLink("fA", "https", FALSE)>>,
      <<DriveLink("fB", "https", FALSE)>>,
      <<DriveLink("fJ", "https", FALSE)>>,
      <<DriveLink("fN", "http", TRUE)>> }

\* extractFileIds(content): [...content.matchAll(regex)].map(([url, id]) => ({ url, fileId: id }))
extractFileIds(content) ==
    LET hits == SelectSeq(content, LAMBDA l : l.drive)
    IN [k \in 1..Len(hits) |-> [url |-> hits[k].url, fileId |-> hits[k].fileId]]


(***************************************************************************)
(* Messages                                                                *)
(***************************************************************************)
\* A user's message: embeds are the platform's native previews of its links.
UserMessage(content) ==
    [author |-> "user", live |-> TRUE, content |-> content, embeds |-> <<>>,
     suppressed |-> FALSE, count |-> 1]

\* A burst of HistoryLimit messages without links by other users, kept as one
\* entry; their MessageCreate handlers find no link and return without effect.
ChatterBlock ==
    [author |-> "chatter", live |-> TRUE, content |-> <<>>, embeds |-> <<>>,
     suppressed |-> FALSE, count |-> HistoryLimit]

\* What the platform stores and returns for an embed the bot sent: the
\* timestamp in the platform's own format and extra properties such as type.
StoredEmbed(e) ==
    [title |-> e.title, url |-> e.url, color |-> e.color,
     timestamp |-> [instant |-> e.timestamp.instant, fmt |-> "platform"],
     type |-> "rich"]

BotMessage(embeds) ==
    [author |-> "bot", live |-> TRUE, content |-> <<>>,
     embeds |-> [k \in 1..Len(embeds) |-> StoredEmbed(embeds[k])],
     suppressed |-> FALSE, count |-> 1]

Range(seq) == {seq[k] : k \in 1..Len(seq)}

(***************************************************************************)
(* createEmbedsMessage (embeds.ts 87-145)                                  *)
(***************************************************************************)
MissingRequiredField(file) ==
    \/ file.name = <<>> \/ file.webViewLink = "" \/ file.mimeType = ""
    \/ file.modifiedTime.fmt = "absent"

BuildEmbed(file, i, sourceId) ==
    [title |-> IF i > 1 THEN file.name ELSE appendInvisible(file.name, sourceId),
     url |-> file.webViewLink,
     color |-> ColorOf(file.mimeType),
     timestamp |-> ToISOString(DateParse(file.modifiedTime))]

\* mutant: the embeds are built from the newest answer to the oldest
createEmbedsMessage_Reversed(fileIds, sourceId) ==
    LET answers == [k \in 1..Len(fileIds) |-> DriveGet(fileIds[k])]
        files == SelectSeq(answers, LAMBDA a : a.status = "ok")
    IN IF \E k \in 1..Len(answers) : answers[k].status = "error"
       THEN [status |-> "error", embeds |-> <<>>]
       ELSE IF Len(files) = 0 THEN [status |-> "ok", embeds |-> <<>>]
       ELSE IF \E k \in 1..Len(files) : MissingRequiredField(files[k])
       THEN [status |-> "error", embeds |-> <<>>]
       ELSE [status |-> "ok",
             embeds |-> [i \in 1..Len(files) |->
                           BuildEmbed(files[Len(files) + 1 - i], i, sourceId)]]

\* mutant: every error is swallowed like not-found, and so is a file that
\* lacks a field
createEmbedsMessage_SwallowAll(fileIds, sourceId) ==
    LET answers == [k \in 1..Len(fileIds) |-> DriveGet(fileIds[k])]
        files == SelectSeq(answers,
                     LAMBDA a : a.status = "ok" /\ ~MissingRequiredField(a))
    IN [status |-> "ok",
        embeds |-> [i \in 1..Len(files) |-> BuildEmbed(files[i], i, sourceId)]]

\* status "error": the promise rejects; embeds = <<>> with status "ok": undefined
createEmbedsMessage(fileIds, sourceId) ==
    LET answers == [k \in 1..Len(fileIds) |-> DriveGet(fileIds[k])]
        files == SelectSeq(answers, LAMBDA a : a.status = "ok")
    IN IF \E k \in 1..Len(answers) : answers[k].status = "error"
       THEN [status |-> "error", embeds |-> <<>>]
       ELSE IF Len(files) = 0 THEN [status |-> "ok", embeds |-> <<>>]
       ELSE IF \E k \in 1..Len(files) : MissingRequiredField(files[k])
       THEN [status |-> "error", embeds |-> <<>>]
       ELSE [status |-> "ok",
             embeds |-> [i \in 1..Len(files) |-> BuildEmbed(files[i], i, sourceId)]]

(***************************************************************************)
(* retrieveOldEmbedsMessage (embeds.ts 44-80)                              *)
(***************************************************************************)
\* channel.messages.fetch({ after, limit }): the live messages after the
\* source message, nearest first, up to the limit
RECURSIVE HistoryFrom(_, _, _)
HistoryFrom(ch, i, room) ==
    IF i > Len(ch) \/ room <= 0 THEN <<>>
    ELSE IF ~ch[i].live THEN HistoryFrom(ch, i + 1, room)
    ELSE <<i>> \o HistoryFrom(ch, i + 1, room - ch[i].count)

FetchHistory(ch, src) == HistoryFrom(ch, src + 1, HistoryLimit)

\* mutant: the first bot message with an embed title is taken, whatever id
\* its title decodes to
FindOldEmbedsMessage_AnyId(ch, cands, sourceId) ==
    LET titled == SelectSeq(cands, LAMBDA i : ch[i].embeds # <<>> /\ ch[i].embeds[1].title # <<>>)
    IN IF titled = <<>> THEN [status |-> "none", msg |-> 0]
       ELSE [status |-> "found", msg |-> Head(titled)]

\* mutant: a title on which decoding throws is passed over
RECURSIVE FindOldEmbedsMessage_SkipThrown(_, _, _)
FindOldEmbedsMessage_SkipThrown(ch, cands, sourceId) ==
    IF cands = <<>> THEN [status |-> "none", msg |-> 0]
    ELSE LET m == ch[Head(cands)]
         IN IF m.embeds = <<>> \/ m.embeds[1].title = <<>>
            THEN FindOldEmbedsMessage_SkipThrown(ch, Tail(cands), sourceId)
            ELSE LET d == decodeAppendedInvisible(m.embeds[1].title)
                 IN IF d.ok /\ d.val = sourceId
                    THEN [status |-> "found", msg |-> Head(cands)]
                    ELSE FindOldEmbedsMessage_SkipThrown(ch, Tail(cands), sourceId)

\* .find(({ embeds }) => ...) over the bot's messages, oldest first
RECURSIVE FindOldEmbedsMessage(_, _, _)
FindOldEmbedsMessage(ch, cands, sourceId) ==
    IF cands = <<>> THEN [status |-> "none", msg |-> 0]
    ELSE LET m == ch[Head(cands)]
         IN IF m.embeds = <<>> \/ m.embeds[1].title = <<>>
            THEN FindOldEmbedsMessage(ch, Tail(cands), sourceId)
            ELSE LET d == decodeAppendedInvisible(m.embeds[1].title)
                 IN IF ~d.ok THEN [status |-> "error", msg |-> 0]
                    ELSE IF d.val = sourceId THEN [status |-> "found", msg |-> Head(cands)]
                    ELSE FindOldEmbedsMessage(ch, Tail(cands), sourceId)

\* mutant: the messages fetched are not filtered by author
LocateOnce_AnyAuthor(ch, src) ==
    FindOldEmbedsMessage(ch, FetchHistory(ch, src), IdStr(src))

\* one fetch of retrieveOldEmbedsMessage: found | none | error
LocateOnce(ch, src) ==
    FindOldEmbedsMessage(ch,
        SelectSeq(FetchHistory(ch, src), LAMBDA i : ch[i].author = "bot"),
        IdStr(src))

\* The live shadow messages of source message s: bot-authored, first embed
\* title decoding to the id of s
ShadowsIn(ch, s) ==
    {i \in 1..Len(ch) :
        /\ ch[i].author = "bot" /\ ch[i].live
        /\ ch[i].embeds # <<>>
        /\ LET d == decodeAppendedInvisible(ch[i].embeds[1].title)
           IN d.ok /\ d.val = IdStr(s)}

ShadowsOf(s) == ShadowsIn(channel, s)

\* the live shadows, with their embeds, of the messages of batch
ShadowsAt(ch, batch) ==
    {[msg |-> i, embeds |-> ch[i].embeds] :
        i \in UNION {ShadowsIn(ch, batch[k]) : k \in 1..Len(batch)}}

(***************************************************************************)
(* The embed comparison of updateEmbedsMessage (embeds.ts 227-252)         *)
(***************************************************************************)
\* Object.fromEntries(Object.entries(e).filter(([key]) => key !== "timestamp"))
WithoutTimestamp(e) == [k \in (DOMAIN e) \ {"timestamp"} |-> e[k]]

\* mutant: the two objects must have the same properties
deepMatch_BothWays(subset, value) == DOMAIN subset = DOMAIN value /\ subset = value

\* Bun's deepMatch(subset, value): every property of subset is in value, equal
deepMatch(subset, value) ==
    \A k \in DOMAIN subset : k \in DOMAIN value /\ value[k] = subset[k]

\* mutant: timestamps compared as strings, as Embed#equals does
EmbedDiffers_StringTimestamps(oldEmbedData, newEmbedData) ==
    \/ oldEmbedData.timestamp # newEmbedData.timestamp
    \/ ~deepMatch(WithoutTimestamp(newEmbedData), oldEmbedData)

EmbedDiffers(oldEmbedData, newEmbedData) ==
    \/ DateParse(oldEmbedData.timestamp) # DateParse(newEmbedData.timestamp)
    \/ ~deepMatch(WithoutTimestamp(newEmbedData), oldEmbedData)

EmbedsDiffer(oldEmbeds, newEmbeds) ==
    \/ Len(oldEmbeds) # Len(newEmbeds)
    \/ \E i \in 1..Len(oldEmbeds) :
          i > Len(newEmbeds) \/ EmbedDiffers(oldEmbeds[i], newEmbeds[i])

(***************************************************************************)
(* suppressEmbeds (embeds.ts 152-183)                                      *)
(***************************************************************************)
NoUrl == [scheme |-> "", file |-> "", query |-> FALSE]

\* normalizeUrl(url, { forceHttps, stripHash, removeQueryParameters, ... })
normalizeUrl(u) == [scheme |-> "https", file |-> u.file, query |-> FALSE]

\* mutant: one matching preview is enough
\* mutant: without embedsUrls.length > 0
shouldSuppress_NoLengthCheck(message, fileUrls) ==
    \A k \in 1..Len(message.embeds) :
        /\ message.embeds[k].url # NoUrl
        /\ \E j \in 1..Len(fileUrls) :
              normalizeUrl(message.embeds[k].url) = normalizeUrl(fileUrls[j])

shouldSuppress_SomeMatch(message, fileUrls) ==
    /\ Len(message.embeds) > 0
    /\ \E k \in 1..Len(message.embeds) :
          /\ message.embeds[k].url # NoUrl
          /\ \E j \in 1..Len(fileUrls) :
                normalizeUrl(message.embeds[k].url) = normalizeUrl(fileUrls[j])

shouldSuppress(message, fileUrls) ==
    /\ Len(message.embeds) > 0
    /\ \A k \in 1..Len(message.embeds) :
          /\ message.embeds[k].url # NoUrl
          /\ \E j \in 1..Len(fileUrls) :
                normalizeUrl(message.embeds[k].url) = normalizeUrl(fileUrls[j])


(***************************************************************************)
(* Handlers: one record per listener invocation                            *)
(*  kind    Created | Edited | Command (updateEmbedsMessage)               *)
(*          Deleted | Bulk (deleteEmbedsMessage per message of batch)      *)
(*  pc      run: Promise.all of the lookup and the metadata requests       *)
(*          send, delete, edit: the request about to reach the platform    *)
(*          suppress, toggle: suppressEmbeds; loop: the delete listeners   *)
(*  loc, retries, old, oldEmbeds   the lookup branch and its result        *)
(*  meta, new                      the metadata branch and its result      *)
(*  batch, st, found               the messages of a delete event, the     *)
(*                                 position of each, the shadow found      *)
(*  acted, nFetch, nSleep, pre     history: requests issued, fetches and   *)
(*                                 waits made, shadows live at the event   *)
(*  cause, flags                   history: who caused the event (user,    *)
(*                                 platform, toggle) and the suppress flag *)
(*                                 of oldMessage and of newMessage         *)
(***************************************************************************)
IdleHandler ==
    [kind |-> "idle", pc |-> "idle", src |-> 0, refs |-> <<>>,
     isNewlyCreated |-> FALSE, isEmbedsSuppressed |-> FALSE,
     loc |-> "off", retries |-> 0, old |-> 0, oldEmbeds |-> <<>>,
     meta |-> "off", new |-> <<>>, want |-> FALSE,
     batch |-> <<>>, st |-> <<>>, found |-> <<>>,
     acted |-> {}, nFetch |-> 0, nSleep |-> 0, pre |-> {},
     cause |-> "none", flags |-> <<FALSE, FALSE>>]

Slots == 1..MaxHandlers

Active(h) == handlers[h].pc \notin {"idle", "done", "failed"}

Involves(h, s) == s \in Range(handlers[h].batch)

FreeSlots(busy) == {h \in Slots : ~Active(h) /\ h # busy}

\* the slot a new listener invocation runs in
NewSlot(busy) == CHOOSE h \in FreeSlots(busy) : \A g \in FreeSlots(busy) : h <= g

CanDispatch(busy) == events < MaxEvents /\ FreeSlots(busy) # {}

NewGhost == [last |-> "none", overlap |-> FALSE, changed |-> FALSE,
             sends |-> 0, edits |-> 0, deletes |-> 0, toggles |-> 0]

PadGhost(g, n) == g \o [k \in 1..(n - Len(g)) |-> NewGhost]

\* a handler for the messages of batch starts: note the overlaps
GhostOnStart(g, batch, busy) ==
    [i \in DOMAIN g |->
        IF i \in Range(batch) /\ \E h \in Slots : h # busy /\ Active(h) /\ Involves(h, i)
        THEN [g[i] EXCEPT !.overlap = TRUE] ELSE g[i]]

\* a handler reached done or failed: note the outcome for its messages
GhostOnFinish(g, rec) ==
    IF rec.pc \in {"done", "failed"}
    THEN [i \in DOMAIN g |->
            IF i \in Range(rec.batch)
            THEN [g[i] EXCEPT !.last = IF rec.pc = "done" THEN "ok" ELSE "err"]
            ELSE g[i]]
    ELSE g

\* updateEmbedsMessage(sourceMessage, options): the synchronous part up to the
\* first await (embeds.ts 201-216). ch is the channel after the event.
UpdateHandler(kind, ch, src, isNewlyCreated, isEmbedsSuppressed) ==
    [IdleHandler EXCEPT
        !.kind = kind, !.pc = "run", !.src = src, !.batch = <<src>>,
        !.refs = extractFileIds(ch[src].content),
        !.isNewlyCreated = isNewlyCreated,
        !.isEmbedsSuppressed = isEmbedsSuppressed,
        !.loc = IF isNewlyCreated THEN "off" ELSE "fetch",
        !.retries = UpdateRetries,
        !.meta = "get",
        !.pre = ShadowsAt(ch, <<src>>)]

\* the MessageDelete and MessageBulkDelete listeners before their first step
DeleteHandler(kind, ch, batch) ==
    [IdleHandler EXCEPT
        !.kind = kind, !.pc = "loop", !.batch = batch,
        !.pre = ShadowsAt(ch, batch),
        !.st = [k \in 1..Len(batch) |-> "wait"],
        !.found = [k \in 1..Len(batch) |-> 0]]

\* isValidRequest(message) (main.ts 61-77); every event of the model comes from
\* the authorized guild
\* mutant: the author is not looked at
isValidRequest_Anyone(message) == TRUE

isValidRequest(message) == message.author # "bot"

\* mutant: every change of the suppress flag counts as the bot's own toggle
IsEmbedsSuppressedEvent_AnyChange(oldPartial, oldFlag, newFlag) ==
    ~oldPartial /\ oldFlag # newFlag

\* main.ts 96-100: options.isEmbedsSuppressed of the MessageUpdate listener
IsEmbedsSuppressedEvent(oldPartial, oldFlag, newFlag) ==
    ~(oldPartial \/ oldFlag) /\ newFlag

\* mutant: the branch that deletes the old embeds message is missing
Decide_ForgetDelete(rec) ==
    IF rec.old = 0
    THEN IF rec.new = <<>> THEN "done" ELSE "send"
    ELSE IF rec.new = <<>> THEN "suppress"
    ELSE IF EmbedsDiffer(rec.oldEmbeds, rec.new) THEN "edit"
    ELSE "suppress"

\* mutant: changed embeds replace the old message instead of editing it
Decide_Recreate(rec) ==
    IF rec.old = 0
    THEN IF rec.new = <<>> THEN "done" ELSE "send"
    ELSE IF rec.new = <<>> THEN "delete"
    ELSE IF EmbedsDiffer(rec.oldEmbeds, rec.new) THEN "delete"
    ELSE "suppress"

\* the branch updateEmbedsMessage takes once both promises resolved
\* (embeds.ts 218-254); "done" is the early return of line 221
Decide(rec) ==
    IF rec.old = 0
    THEN IF rec.new = <<>> THEN "done" ELSE "send"
    ELSE IF rec.new = <<>> THEN "delete"
    ELSE IF EmbedsDiffer(rec.oldEmbeds, rec.new) THEN "edit"
    ELSE "suppress"

\* Promise.all resolves when the lookup (or its skip) and the metadata are in
Settle(rec) ==
    IF rec.pc = "run" /\ rec.loc \in {"off", "ret"} /\ rec.meta = "ret"
    THEN [rec EXCEPT !.pc = Decide(rec)]
    ELSE rec

\* mutant: the deletions are started without awaiting one another
MayStart_Parallel(rec, k) == TRUE

\* for (const message of messages.values()) { ...; await deleteEmbedsMessage(message) }:
\* the iteration for position k starts when the one before it has completed
MayStart(rec, k) == IF k = 1 THEN TRUE ELSE rec.st[k - 1] \in {"done", "skip"}

FinishLoop(rec) ==
    IF rec.pc = "loop" /\ \A k \in 1..Len(rec.st) : rec.st[k] \in {"done", "skip"}
    THEN [rec EXCEPT !.pc = "done"]
    ELSE rec

\* a run of updateEmbedsMessage issued the requests in rec.acted \ was.acted
GhostOnRequest(g, was, rec) ==
    LET issued(op) == Cardinality({a \in rec.acted \ was.acted : a[1] = op})
    IN [i \in DOMAIN g |->
          IF i = rec.src
          THEN [g[i] EXCEPT !.sends = @ + issued("send"), !.edits = @ + issued("edit"),
                            !.deletes = @ + issued("delete"),
                            !.toggles = @ + issued("toggle")]
          ELSE g[i]]

\* the common effect of a step of handler h
Step(h, rec, ch) ==
    /\ handlers' = [handlers EXCEPT ![h] = rec]
    /\ channel' = ch
    /\ ghost' = GhostOnFinish(GhostOnRequest(PadGhost(ghost, Len(ch)), handlers[h], rec), rec)
    /\ UNCHANGED <<events, codec>>

\* the common effect of an event that starts a handler; g is the history so far
DispatchWith(rec, ch, g) ==
    /\ CanDispatch(0)
    /\ handlers' = [handlers EXCEPT ![NewSlot(0)] = rec]
    /\ channel' = ch
    /\ ghost' = GhostOnStart(PadGhost(g, Len(ch)), rec.batch, 0)
    /\ events' = events + 1
    /\ UNCHANGED codec

Dispatch(rec, ch) == DispatchWith(rec, ch, ghost)

\* the event a listener invocation answers: its cause, and the suppress flag
\* of the message before and after it
CausedBy(rec, cause, oldFlag, newFlag) ==
    [rec EXCEPT !.cause = cause, !.flags = <<oldFlag, newFlag>>]


(***************************************************************************)
(* Events: what users and the platform do, and the listener each starts    *)
(***************************************************************************)
RECURSIVE SortedSeq(_)
SortedSeq(S) ==
    IF S = {} THEN <<>>
    ELSE LET m == CHOOSE x \in S : \A y \in S : x <= y
         IN <<m>> \o SortedSeq(S \ {m})

Sources == {i \in 1..Len(channel) : channel[i].author = "user"}
LiveSources == {i \in Sources : channel[i].live}

\* a user posts a message: Events.MessageCreate (main.ts 79-84)
UserCreate(c) ==
    /\ Cardinality(Sources) < MaxSources
    /\ LET ch == Append(channel, UserMessage(c))
       IN Dispatch(CausedBy(UpdateHandler("Created", ch, Len(ch), TRUE, FALSE),
                            "user", FALSE, FALSE), ch)

\* a user edits a message: Events.MessageUpdate (main.ts 86-102); the platform
\* drops the previews of the old content
UserEdit(s, c) ==
    /\ s \in LiveSources
    /\ channel[s].content # c
    /\ LET ch == [channel EXCEPT ![s].content = c, ![s].embeds = <<>>]
       IN DispatchWith(CausedBy(UpdateHandler("Edited", ch, s, FALSE,
                           IsEmbedsSuppressedEvent(FALSE, channel[s].suppressed, ch[s].suppressed)),
                           "user", channel[s].suppressed, ch[s].suppressed),
                       ch, [ghost EXCEPT ![s].changed = TRUE])

\* the platform adds its native previews of the links of a message, which is
\* an embeds-only Events.MessageUpdate
Unfurl(s) ==
    /\ s \in LiveSources
    /\ ~channel[s].suppressed
    /\ channel[s].embeds = <<>>
    /\ channel[s].content # <<>>
    /\ LET ch == [channel EXCEPT ![s].embeds =
                    [k \in 1..Len(channel[s].content) |-> [url |-> channel[s].content[k].url]]]
       IN Dispatch(CausedBy(UpdateHandler("Edited", ch, s, FALSE,
                       IsEmbedsSuppressedEvent(FALSE, channel[s].suppressed, ch[s].suppressed)),
                       "platform", channel[s].suppressed, ch[s].suppressed),
                   ch)

\* "Update Embeds" context menu command on a user's message (commands.ts 49-53)
Command(s) ==
    /\ s \in LiveSources
    /\ Dispatch(CausedBy(UpdateHandler("Command", channel, s, FALSE, FALSE),
                         "user", channel[s].suppressed, channel[s].suppressed), channel)

\* a user deletes a message: Events.MessageDelete (main.ts 104-109)
UserDelete(s) ==
    /\ s \in LiveSources
    /\ LET ch == [channel EXCEPT ![s].live = FALSE]
       IN Dispatch(DeleteHandler("Deleted", ch, <<s>>), ch)

\* a moderator bulk-deletes messages, the bot's among them:
\* Events.MessageBulkDelete (main.ts 111-119)
BulkDelete(S) ==
    /\ Cardinality(S) >= 2
    /\ \A i \in S : channel[i].live /\ channel[i].author # "chatter"
    /\ LET ch == [i \in DOMAIN channel |->
                    IF i \in S THEN [channel[i] EXCEPT !.live = FALSE] ELSE channel[i]]
       IN Dispatch(DeleteHandler("Bulk", ch, SortedSeq(S)), ch)

\* other users post HistoryLimit messages without links
Chatter ==
    /\ Len(channel) >= 1
    /\ Cardinality({i \in 1..Len(channel) : channel[i].author = "chatter"}) < MaxChatter
    /\ channel' = Append(channel, ChatterBlock)
    /\ ghost' = PadGhost(ghost, Len(channel) + 1)
    /\ UNCHANGED <<handlers, events, codec>>

(***************************************************************************)
(* Steps of updateEmbedsMessage (embeds.ts 190-263)                        *)
(***************************************************************************)
\* the platform answers the history fetch of retrieveOldEmbedsMessage
\* mutant: the lookup waits and retries whatever is left of its budget
LocFetch_NoBudget(h) ==
    LET r == handlers[h]
        res == LocateOnce(channel, r.src)
        n == [r EXCEPT !.nFetch = @ + 1]
    IN /\ r.pc = "run" /\ r.loc = "fetch"
       /\ Step(h,
               IF res.status = "error" THEN [n EXCEPT !.pc = "failed"]
               ELSE IF res.status = "found"
                    THEN Settle([n EXCEPT !.loc = "ret", !.old = res.msg,
                                          !.oldEmbeds = channel[res.msg].embeds])
               ELSE [n EXCEPT !.loc = "sleep"],
               channel)

LocFetch(h) ==
    LET r == handlers[h]
        res == LocateOnce(channel, r.src)
        n == [r EXCEPT !.nFetch = @ + 1]
    IN /\ r.pc = "run" /\ r.loc = "fetch"
       /\ Step(h,
               IF res.status = "error" THEN [n EXCEPT !.pc = "failed"]
               ELSE IF res.status = "found"
                    THEN Settle([n EXCEPT !.loc = "ret", !.old = res.msg,
                                          !.oldEmbeds = channel[res.msg].embeds])
               ELSE IF r.retries = 0 THEN Settle([n EXCEPT !.loc = "ret", !.old = 0])
               ELSE [n EXCEPT !.loc = "sleep"],
               channel)

\* await sleep(1000) is over: retrieveOldEmbedsMessage(message, maxRetries - 1)
LocWake(h) ==
    LET r == handlers[h]
    IN /\ r.pc = "run" /\ r.loc = "sleep"
       /\ Step(h, [r EXCEPT !.loc = "fetch", !.retries = @ - 1, !.nSleep = @ + 1], channel)

\* the metadata requests of createEmbedsMessage are answered
MetaGet(h) ==
    LET r == handlers[h]
        res == createEmbedsMessage([k \in 1..Len(r.refs) |-> r.refs[k].fileId], IdStr(r.src))
    IN /\ r.pc = "run" /\ r.meta = "get"
       /\ Step(h,
               IF res.status = "error" THEN [r EXCEPT !.pc = "failed"]
               ELSE Settle([r EXCEPT !.meta = "ret", !.new = res.embeds]),
               channel)

\* sourceMessage.channel.send(newEmbedsMessage)
Send(h) ==
    LET r == handlers[h]
    IN /\ r.pc = "send"
       /\ Step(h, [r EXCEPT !.pc = "suppress",
                            !.acted = @ \cup {<<"send", Len(channel) + 1>>}],
               Append(channel, BotMessage(r.new)))

\* oldEmbedsMessage.delete(); deleting a message that is gone is an API error
Delete(h) ==
    LET r == handlers[h]
        a == [r EXCEPT !.acted = @ \cup {<<"delete", r.old>>}]
    IN /\ r.pc = "delete"
       /\ IF channel[r.old].live
          THEN Step(h, [a EXCEPT !.pc = "suppress"], [channel EXCEPT ![r.old].live = FALSE])
          ELSE Step(h, [a EXCEPT !.pc = "failed"], channel)

\* oldEmbedsMessage.edit(newEmbedsMessage)
Edit(h) ==
    LET r == handlers[h]
        a == [r EXCEPT !.acted = @ \cup {<<"edit", r.old>>}]
    IN /\ r.pc = "edit"
       /\ IF channel[r.old].live
          THEN Step(h, [a EXCEPT !.pc = "suppress"],
                    [channel EXCEPT ![r.old].embeds = BotMessage(r.new).embeds])
          ELSE Step(h, [a EXCEPT !.pc = "failed"], channel)

\* mutant: the request is sent without comparing the decision with the flag
SuppressCheck_AlwaysRequest(h) ==
    LET r == handlers[h]
        should == shouldSuppress(channel[r.src], [k \in 1..Len(r.refs) |-> r.refs[k].url])
    IN /\ r.pc = "suppress"
       /\ Step(h,
               IF r.isEmbedsSuppressed THEN [r EXCEPT !.pc = "done"]
               ELSE [r EXCEPT !.acted = @ \cup {<<"suppressor", r.src>>},
                              !.pc = "toggle", !.want = should],
               channel)

\* embeds.ts 256-262 and suppressEmbeds up to its request (152-181)
SuppressCheck(h) ==
    LET r == handlers[h]
        should == shouldSuppress(channel[r.src], [k \in 1..Len(r.refs) |-> r.refs[k].url])
    IN /\ r.pc = "suppress"
       /\ Step(h,
               IF r.isEmbedsSuppressed THEN [r EXCEPT !.pc = "done"]
               ELSE LET a == [r EXCEPT !.acted = @ \cup {<<"suppressor", r.src>>}]
                    IN IF channel[r.src].suppressed = should THEN [a EXCEPT !.pc = "done"]
                       ELSE [a EXCEPT !.pc = "toggle", !.want = should],
               channel)

\* message.suppressEmbeds(shouldSuppress) reaches the platform, which sets the
\* flag, hides the previews and emits Events.MessageUpdate. The handler returns
\* on the answer; the listener of the event runs in a free slot, or in the
\* slot of the handler that has just returned.
Toggle(h) ==
    LET r == handlers[h]
        a == [r EXCEPT !.acted = @ \cup {<<"toggle", r.src>>}]
        ch == [channel EXCEPT ![r.src].suppressed = r.want,
                              ![r.src].embeds = IF r.want THEN <<>> ELSE @]
        fin == [a EXCEPT !.pc = "done"]
        slot == IF FreeSlots(h) # {} THEN NewSlot(h) ELSE h
    IN /\ r.pc = "toggle"
       /\ IF ~channel[r.src].live
          THEN Step(h, [a EXCEPT !.pc = "failed"], channel)
          ELSE /\ events < MaxEvents
               /\ handlers' = [handlers EXCEPT
                     ![h] = fin,
                     ![slot] = CausedBy(UpdateHandler("Edited", ch, r.src, FALSE,
                         IsEmbedsSuppressedEvent(FALSE, channel[r.src].suppressed, r.want)),
                         "toggle", channel[r.src].suppressed, r.want)]
               /\ channel' = ch
               /\ ghost' = GhostOnStart(GhostOnFinish(GhostOnRequest(ghost, r, fin), fin),
                                        <<r.src>>, h)
               /\ events' = events + 1
               /\ UNCHANGED codec

(***************************************************************************)
(* Steps of the delete listeners and deleteEmbedsMessage (embeds.ts        *)
(* 269-274, main.ts 104-119)                                               *)
(***************************************************************************)
\* the listener reaches the message at position k of its batch
\* mutant: the loop goes on to the next message after a failure
LoopStart_PastFailure(h, k) ==
    LET r == handlers[h]
    IN /\ r.pc \in {"loop", "failed"} /\ k \in DOMAIN r.st
       /\ r.st[k] = "wait"
       /\ IF k = 1 THEN TRUE ELSE r.st[k - 1] # "wait"
       /\ Step(h, FinishLoop([r EXCEPT !.st[k] =
                     IF isValidRequest(channel[r.batch[k]]) THEN "lookup" ELSE "skip"]),
               channel)

LoopStart(h, k) ==
    LET r == handlers[h]
    IN /\ r.pc = "loop" /\ k \in 1..Len(r.batch)
       /\ r.st[k] = "wait"
       /\ MayStart(r, k)
       /\ Step(h, FinishLoop([r EXCEPT !.st[k] =
                     IF isValidRequest(channel[r.batch[k]]) THEN "lookup" ELSE "skip"]),
               channel)

\* the platform answers the single history fetch of deleteEmbedsMessage
LoopFetch(h, k) ==
    LET r == handlers[h]
        res == LocateOnce(channel, r.batch[k])
        n == [r EXCEPT !.nFetch = @ + 1]
    IN /\ r.pc = "loop" /\ k \in 1..Len(r.batch)
       /\ r.st[k] = "lookup"
       /\ Step(h,
               IF res.status = "error" THEN [n EXCEPT !.pc = "failed"]
               ELSE IF res.status = "found"
                    THEN [n EXCEPT !.st[k] = "delete", !.found[k] = res.msg]
               ELSE FinishLoop([n EXCEPT !.st[k] = "done"]),
               channel)

\* oldEmbedsMessage?.delete() reaches the platform
LoopDelete(h, k) ==
    LET r == handlers[h]
        a == [r EXCEPT !.acted = @ \cup {<<"delete", r.found[k]>>}]
    IN /\ r.pc = "loop" /\ k \in 1..Len(r.batch)
       /\ r.st[k] = "delete"
       /\ IF channel[r.found[k]].live
          THEN Step(h, FinishLoop([a EXCEPT !.st[k] = "done"]),
                    [channel EXCEPT ![r.found[k]].live = FALSE])
          ELSE Step(h, [a EXCEPT !.pc = "failed"], channel)

(***************************************************************************)
(* The specification of the bot in a channel that starts empty              *)
(***************************************************************************)
CodecIdle == [pc |-> "off", visible |-> <<>>, payload |-> <<>>, tail |-> <<>>,
              text |-> <<>>, direct |-> [ok |-> TRUE, val |-> <<>>],
              out |-> [ok |-> TRUE, val |-> <<>>],
              links |-> <<>>, seps |-> <<>>]

Init ==
    /\ channel = <<>>
    /\ handlers = [h \in Slots |-> IdleHandler]
    /\ events = 0
    /\ ghost = <<>>
    /\ codec = CodecIdle

MaxBatch == 3

Next ==
    \/ \E c \in Contents : UserCreate(c)
    \/ \E s \in 1..Len(channel), c \in Contents : UserEdit(s, c)
    \/ \E s \in 1..Len(channel) : Unfurl(s)
    \/ \E s \in 1..Len(channel) : Command(s)
    \/ \E s \in 1..Len(channel) : UserDelete(s)
    \/ \E S \in SUBSET (1..Len(channel)) : Cardinality(S) <= MaxBatch /\ BulkDelete(S)
    \/ Chatter
    \/ \E h \in Slots : LocFetch(h)
    \/ \E h \in Slots : LocWake(h)
    \/ \E h \in Slots : MetaGet(h)
    \/ \E h \in Slots : Send(h)
    \/ \E h \in Slots : Delete(h)
    \/ \E h \in Slots : Edit(h)
    \/ \E h \in Slots : SuppressCheck(h)
    \/ \E h \in Slots : Toggle(h)
    \/ \E h \in Slots, k \in 1..MaxBatch : LoopStart(h, k)
    \/ \E h \in Slots, k \in 1..MaxBatch : LoopFetch(h, k)
    \/ \E h \in Slots, k \in 1..MaxBatch : LoopDelete(h, k)

Spec == Init /\ [][Next]_vars


(***************************************************************************)
(* The codec on its own: inputs drawn at Init, then appendInvisible and    *)
(* decodeAppendedInvisible applied                                         *)
(***************************************************************************)
MaxPayloadLen == 2
MaxVisibleLen == 1

\* A, e-acute, the first and last reserved code points, the byte order mark,
\* a high and a low surrogate
CodeUnits == {65, 233, 8288, 8303, 65279, 55357, 56832}

StringsUpTo(n) == UNION {[1..k -> CodeUnits] : k \in 0..n}

CodecInit ==
    /\ channel = <<>>
    /\ handlers = [h \in Slots |-> IdleHandler]
    /\ events = 0
    /\ ghost = <<>>
    /\ \E v \in StringsUpTo(MaxVisibleLen), x \in StringsUpTo(MaxPayloadLen) :
          codec = [CodecIdle EXCEPT !.pc = "in", !.visible = v, !.payload = x]

CodecAppend ==
    /\ codec.pc = "in"
    /\ codec' = [codec EXCEPT !.pc = "appended",
                              !.tail = encode(codec.payload),
                              !.text = appendInvisible(codec.visible, codec.payload)]
    /\ UNCHANGED <<channel, handlers, events, ghost>>

CodecDecode ==
    /\ codec.pc = "appended"
    /\ codec' = [codec EXCEPT !.pc = "decoded",
                              !.direct = decode(codec.tail),
                              !.out = decodeAppendedInvisible(codec.text)]
    /\ UNCHANGED <<channel, handlers, events, ghost>>

CodecNext == CodecAppend \/ CodecDecode

CodecSpec == CodecInit /\ [][CodecNext]_vars

(***************************************************************************)
(* Bulk deletion in a quiet channel: BulkSources user messages, of which   *)
(* BulkShadowed link a file and have their shadow, no handler in progress  *)
(***************************************************************************)
BulkSources == 4
BulkShadowed == 2
BulkBatch == 4

ShadowFor(f, src) == BotMessage(createEmbedsMessage(<<f>>, IdStr(src)).embeds)

\* the channel after the Created handlers of the messages have completed, each
\* shadow right after its source message
RECURSIVE QuietChannel(_, _, _)
QuietChannel(k, W, ch) ==
    IF k > BulkSources THEN ch
    ELSE IF k \in W
         THEN QuietChannel(k + 1, W,
                  Append(Append(ch, UserMessage(<<DriveLink("fA", "https", FALSE)>>)),
                         ShadowFor("fA", Len(ch) + 1)))
         ELSE QuietChannel(k + 1, W, Append(ch, UserMessage(<<>>)))

BulkInit ==
    /\ \E W \in SUBSET (1..BulkSources) :
          /\ Cardinality(W) = BulkShadowed
          /\ channel = QuietChannel(1, W, <<>>)
    /\ handlers = [h \in Slots |-> IdleHandler]
    /\ events = 0
    /\ ghost = [i \in 1..Len(channel) |-> [NewGhost EXCEPT !.last = "ok"]]
    /\ codec = CodecIdle

BulkNext ==
    \/ \E S \in SUBSET (1..Len(channel)) : Cardinality(S) <= BulkBatch /\ BulkDelete(S)
    \/ \E h \in Slots, k \in 1..BulkBatch : LoopStart(h, k)
    \/ \E h \in Slots, k \in 1..BulkBatch : LoopFetch(h, k)
    \/ \E h \in Slots, k \in 1..BulkBatch : LoopDelete(h, k)

BulkSpec == BulkInit /\ [][BulkNext]_vars


(***************************************************************************)
(* The suppression chain: one user-caused event on a message, then only    *)
(* what the platform and the bot do in response. The message is new, or has *)
(* been through a whole cycle before: its shadow sent after it, its native *)
(* previews suppressed and hidden.                                         *)
(***************************************************************************)
ChainRoom == 6

\* a message with a file link whose previews the bot has suppressed, and its shadow
SettledChannel ==
    << [UserMessage(<<DriveLink("fA", "https", FALSE)>>) EXCEPT !.suppressed = TRUE],
       ShadowFor("fA", 1) >>

\* events starts ChainRoom below MaxEvents: room for the whole chain
SuppressInit ==
    /\ channel \in {<<>>, SettledChannel}
    /\ handlers = [h \in Slots |-> IdleHandler]
    /\ events = MaxEvents - ChainRoom
    /\ ghost = [i \in 1..Len(channel) |-> [NewGhost EXCEPT !.last = "ok"]]
    /\ codec = CodecIdle

\* the one user-caused event
UserEvent ==
    /\ events = MaxEvents - ChainRoom
    /\ \/ \E c \in Contents : UserCreate(c)
       \/ \E s \in 1..Len(channel), c \in Contents : UserEdit(s, c)
       \/ \E s \in 1..Len(channel) : Command(s)

SuppressNext ==
    \/ UserEvent
    \/ \E s \in 1..Len(channel) : Unfurl(s)
    \/ \E h \in Slots : LocFetch(h)
    \/ \E h \in Slots : LocWake(h)
    \/ \E h \in Slots : MetaGet(h)
    \/ \E h \in Slots : Send(h)
    \/ \E h \in Slots : Delete(h)
    \/ \E h \in Slots : Edit(h)
    \/ \E h \in Slots : SuppressCheck(h)
    \/ \E h \in Slots : Toggle(h)

SuppressSpec == SuppressInit /\ [][SuppressNext]_vars

(***************************************************************************)
(* The Suppressor's decision: a message with up to MaxLinks links and up   *)
(* to MaxPreviews native previews, on which updateEmbedsMessage is run     *)
(***************************************************************************)
MaxLinks == 2
MaxPreviews == 2

\* the same file linked in two ways, and a link that is no file link
LinkForms ==
    {DriveLink("fA", "https", FALSE), DriveLink("fA", "http", TRUE), OtherLink}

\* the URL of a native preview; NoUrl for a preview that is not a link
PreviewUrls == {l.url : l \in LinkForms} \cup {NoUrl}

SeqsUpTo(S, n) == UNION {[1..k -> S] : k \in 0..n}

DecideInit ==
    /\ \E c \in SeqsUpTo(LinkForms, MaxLinks), u \in SeqsUpTo(PreviewUrls, MaxPreviews),
          f \in BOOLEAN :
          channel = << [UserMessage(c) EXCEPT
                          !.embeds = [k \in 1..Len(u) |-> [url |-> u[k]]],
                          !.suppressed = f] >>
    /\ handlers = [h \in Slots |-> IdleHandler]
    /\ events = 0
    /\ ghost = [i \in 1..Len(channel) |-> [NewGhost EXCEPT !.last = "ok"]]
    /\ codec = CodecIdle

\* updateEmbedsMessage is run once on the message
DecideBegin == events = 0 /\ Command(1)

DecideNext ==
    \/ DecideBegin
    \/ \E h \in Slots : LocFetch(h)
    \/ \E h \in Slots : LocWake(h)
    \/ \E h \in Slots : MetaGet(h)
    \/ \E h \in Slots : Send(h)
    \/ \E h \in Slots : SuppressCheck(h)
    \/ \E h \in Slots : Toggle(h)

DecideSpec == DecideInit /\ [][DecideNext]_vars

(***************************************************************************)
(* Resolution: one user-caused event on a message that links up to MaxRefs *)
(* files, any of the provider's files in any order; the message is new or  *)
(* has its shadow already                                                  *)
(***************************************************************************)
MaxRefs == 3

ResolveTexts == SeqsUpTo({DriveLink(f, "https", FALSE) : f \in FileIds}, MaxRefs)

ResolveInit ==
    /\ channel \in {<<>>, SettledChannel}
    /\ handlers = [h \in Slots |-> IdleHandler]
    /\ events = 0
    /\ ghost = [i \in 1..Len(channel) |-> [NewGhost EXCEPT !.last = "ok"]]
    /\ codec = CodecIdle

ResolveBegin ==
    /\ events = 0
    /\ \E c \in ResolveTexts : UserCreate(c) \/ UserEdit(1, c)

ResolveNext ==
    \/ ResolveBegin
    \/ \E h \in Slots : LocFetch(h)
    \/ \E h \in Slots : LocWake(h)
    \/ \E h \in Slots : MetaGet(h)
    \/ \E h \in Slots : Send(h)
    \/ \E h \in Slots : Delete(h)
    \/ \E h \in Slots : Edit(h)
    \/ \E h \in Slots : SuppressCheck(h)
    \/ \E h \in Slots : Toggle(h)

ResolveSpec == ResolveInit /\ [][ResolveNext]_vars

(***************************************************************************)
(* Failing toggle: a user edits a message whose embeds are suppressed, the *)
(* request of the Suppressor is rejected by the platform (missing          *)
(* permission, rate limit, network), and the user edits the message again  *)
(* after the handler has failed                                            *)
(***************************************************************************)
FaultTexts ==
    {<<>>} \cup {<<DriveLink(f, "https", FALSE)>> : f \in {"fA", "fB", "fJ", "fX", "fN"}}

\* a message without links whose author suppressed its embeds, or a message
\* with its shadow
FaultInit ==
    /\ channel \in {<< [UserMessage(<<>>) EXCEPT !.suppressed = TRUE] >>, SettledChannel}
    /\ handlers = [h \in Slots |-> IdleHandler]
    /\ events = 0
    /\ ghost = [i \in 1..Len(channel) |-> [NewGhost EXCEPT !.last = "ok"]]
    /\ codec = CodecIdle

\* await message.suppressEmbeds(shouldSuppress) rejects: updateEmbedsMessage
\* rejects with it, nothing else runs
ToggleFail(h) ==
    LET r == handlers[h]
    IN /\ r.pc = "toggle"
       /\ channel[r.src].live
       /\ Step(h, [r EXCEPT !.pc = "failed", !.acted = @ \cup {<<"toggle", r.src>>}],
               channel)

\* the handler of the first edit has failed in its toggle
ToggleFailed(rec) == rec.pc = "failed" /\ <<"toggle", rec.src>> \in rec.acted

FaultBegin == events = 0 /\ \E c \in FaultTexts : UserEdit(1, c)

\* the later edit, once the failed handler is the only one that ran
FaultLater ==
    /\ events = 1
    /\ \E h \in Slots : ToggleFailed(handlers[h])
    /\ \E c \in FaultTexts : UserEdit(1, c)

FaultNext ==
    \/ FaultBegin
    \/ FaultLater
    \/ \E h \in Slots : LocFetch(h)
    \/ \E h \in Slots : LocWake(h)
    \/ \E h \in Slots : MetaGet(h)
    \/ \E h \in Slots : Send(h)
    \/ \E h \in Slots : Delete(h)
    \/ \E h \in Slots : Edit(h)
    \/ \E h \in Slots : SuppressCheck(h)
    \/ \E h \in Slots : Toggle(h)
    \/ \E h \in Slots : ToggleFail(h)

FaultSpec == FaultInit /\ [][FaultNext]_vars

(***************************************************************************)
(* extractFileIds on the text of a message (embeds.ts 25-36). A text is a  *)
(* sequence of characters; the regular expression is matched as the engine *)
(* matches it: leftmost, each quantifier greedy, the next match sought     *)
(* after the end of the last.                                              *)
(***************************************************************************)
MinIdLen == 25

\* [-\w], for the lower-case letters, digits, "_" and "-" the texts use
IsWordChar(c) ==
    c \in
    {"a", "b", "c", "d", "e", "f", "g", "h", "i", "j", "k", "l", "m", "n",
      "o", "p", "q", "r", "s", "t", "u", "v", "w", "x", "y", "z", "0", "1",
      "2", "3", "4", "5", "6", "7", "8", "9", "_", "-"}

\* [^\s'"\)]
IsUrlChar(c) == c \notin {" ", "\n", "'", "\"", ")"}

\* [^\s"\)'.?!]
IsUrlEnd(c) == IsUrlChar(c) /\ c \notin {".", "?", "!"}


HasAt(text, i, lit) ==
    /\ i + Len(lit) - 1 <= Len(text)
    /\ SubSeq(text, i, i + Len(lit) - 1) = lit

\* the index after  https?:\/\/(?:drive|docs)\.google\.com\/  matched at i, or 0
HostEnd(text, i) ==
    LET LitHttps == <<"h", "t", "t", "p", "s", ":", "/", "/">>
        LitHttp == <<"h", "t", "t", "p", ":", "/", "/">>
        LitDrive == <<"d", "r", "i", "v", "e">>
        LitDocs == <<"d", "o", "c", "s">>
        LitHost == <<".", "g", "o", "o", "g", "l", "e", ".", "c", "o", "m", "/">>
        a == IF HasAt(text, i, LitHttps) THEN i + Len(LitHttps)
             ELSE IF HasAt(text, i, LitHttp) THEN i + Len(LitHttp) ELSE 0
        b == IF a = 0 THEN 0
             ELSE IF HasAt(text, a, LitDrive) THEN a + Len(LitDrive)
             ELSE IF HasAt(text, a, LitDocs) THEN a + Len(LitDocs) ELSE 0
    IN IF b # 0 /\ HasAt(text, b, LitHost) THEN b + Len(LitHost) ELSE 0

\* the index after  \/(?:d|e|folders)\/  matched at q, or 0
MarkerEnd(text, q) ==
    LET LitD == <<"d", "/">>
        LitE == <<"e", "/">>
        LitFolders == <<"f", "o", "l", "d", "e", "r", "s", "/">>
    IN
    IF q > Len(text) \/ text[q] # "/" THEN 0
    ELSE IF HasAt(text, q + 1, LitD) THEN q + 1 + Len(LitD)
    ELSE IF HasAt(text, q + 1, LitE) THEN q + 1 + Len(LitE)
    ELSE IF HasAt(text, q + 1, LitFolders) THEN q + 1 + Len(LitFolders)
    ELSE 0

\* the last index of the longest run of characters of a class that starts at
\* i; i - 1 when the run is empty
RunEnd(text, i, InClass(_)) ==
    CHOOSE j \in (i - 1)..Len(text) :
        /\ \A k \in i..j : InClass(text[k])
        /\ j = Len(text) \/ ~InClass(text[j + 1])

SetMax(S) == CHOOSE x \in S : \A y \in S : y <= x

\* the match of the regular expression that starts at i: [^\s'"\)]+ takes as
\* much as leaves a marker and an identifier of MinIdLen characters or more
\* behind it, the identifier takes its whole run, the optional tail takes as
\* much as ends in a character that may end a URL
MatchAt(text, i) ==
    LET h == HostEnd(text, i)
        pathEnd == RunEnd(text, h, IsUrlChar)
        idLen(q) == RunEnd(text, MarkerEnd(text, q), IsWordChar) - MarkerEnd(text, q) + 1
        cands == {q \in (h + 1)..pathEnd :
                    MarkerEnd(text, q) # 0 /\ idLen(q) >= MinIdLen}
        q == SetMax(cands)
        s == MarkerEnd(text, q)
        e == RunEnd(text, s, IsWordChar)
        tailEnds == IF e < Len(text) /\ text[e + 1] = "/"
                    THEN {t \in (e + 2)..RunEnd(text, e + 2, IsUrlChar) : IsUrlEnd(text[t])}
                    ELSE {}
        end == IF tailEnds = {} THEN e ELSE SetMax(tailEnds)
    IN IF h = 0 THEN [found |-> FALSE]
       ELSE IF cands = {} THEN [found |-> FALSE]
       ELSE [found |-> TRUE, end |-> end,
             url |-> SubSeq(text, i, end), fileId |-> SubSeq(text, s, e)]

\* [...content.matchAll(regex)].map(([url, id]) => ({ url, fileId: id }))
RECURSIVE MatchAllFrom(_, _)
MatchAllFrom(text, i) ==
    LET starts == {j \in i..Len(text) : text[j] = "h" /\ MatchAt(text, j).found}
        m == MatchAt(text, CHOOSE j \in starts : \A k \in starts : j <= k)
    IN IF starts = {} THEN <<>>
       ELSE <<[url |-> m.url, fileId |-> m.fileId]>> \o MatchAllFrom(text, m.end + 1)

extractFileIdsOfText(text) == MatchAllFrom(text, 1)

(***************************************************************************)
(* The extractor on its own: a text of up to MaxPieces links, written one  *)
(* after the other with a separator between two, then extractFileIds       *)
(***************************************************************************)
MaxPieces == 3

Rep(c, n) == [k \in 1..n |-> c]


\* a link as a user writes it: its text, its identifier, and whether the
\* identifier has MinIdLen characters
WrittenLink(prefix, id, tail) ==
    [text |-> prefix \o id \o tail, fileId |-> id, wellFormed |-> Len(id) >= MinIdLen]

ExtractPieces ==
    LET FilePrefix ==
            <<"h", "t", "t", "p", "s", ":", "/", "/", "d", "r", "i", "v",
              "e", ".", "g", "o", "o", "g", "l", "e", ".", "c", "o", "m",
              "/", "f", "i", "l", "e", "/", "d", "/">>
        DocPrefix ==
            <<"h", "t", "t", "p", ":", "/", "/", "d", "o", "c", "s", ".",
              "g", "o", "o", "g", "l", "e", ".", "c", "o", "m", "/", "d",
              "o", "c", "u", "m", "e", "n", "t", "/", "d", "/">>
        FolderPrefix ==
            <<"h", "t", "t", "p", "s", ":", "/", "/", "d", "r", "i", "v",
              "e", ".", "g", "o", "o", "g", "l", "e", ".", "c", "o", "m",
              "/", "d", "r", "i", "v", "e", "/", "f", "o", "l", "d", "e",
              "r", "s", "/">>
        ViewTail == <<"/", "v", "i", "e", "w">>
        EditTail ==
            <<"/", "e", "d", "i", "t", "?", "u", "s", "p", "=", "s", "h",
              "a", "r", "i", "n", "g">>
    IN
    { WrittenLink(FilePrefix, Rep("a", MinIdLen), ViewTail),
      WrittenLink(DocPrefix, Rep("b", MinIdLen - 1) \o <<"-", "_">>, EditTail),
      WrittenLink(FolderPrefix, Rep("c", MinIdLen), <<>>),
      WrittenLink(FilePrefix, Rep("c", MinIdLen - 1), ViewTail) }

\* a space, a line break, a full stop and a space, a comma
Separators == {<<" ">>, <<"\n">>, <<".", " ">>, <<",">>}

RECURSIVE TextOf(_, _)
TextOf(links, seps) ==
    IF links = <<>> THEN <<>>
    ELSE IF Len(links) = 1 THEN links[1].text
    ELSE links[1].text \o seps[1] \o TextOf(Tail(links), Tail(seps))

ExtractInit ==
    /\ channel = <<>>
    /\ handlers = [h \in Slots |-> IdleHandler]
    /\ events = 0
    /\ ghost = <<>>
    /\ \E n \in 1..MaxPieces :
          \E links \in [1..n -> ExtractPieces], seps \in [1..(n - 1) -> Separators] :
             codec = [CodecIdle EXCEPT !.pc = "in", !.links = links, !.seps = seps,
                                       !.text = TextOf(links, seps)]

ExtractRun ==
    /\ codec.pc = "in"
    /\ codec' = [codec EXCEPT !.pc = "extracted", !.out = extractFileIdsOfText(codec.text)]
    /\ UNCHANGED <<channel, handlers, events, ghost>>

ExtractNext == ExtractRun

ExtractSpec == ExtractInit /\ [][ExtractNext]_vars

(***************************************************************************)
(* The lookup on its own: a source message followed by up to MaxHistory    *)
(* messages of any kind, then one fetch of retrieveOldEmbedsMessage        *)
(***************************************************************************)
MaxHistory == 3

\* what may follow the source message 1: its shadow (for one file or
\* another), the shadow of another message, a shadow whose first file name
\* makes decoding throw, messages of the bot without embeds, with an empty
\* title and with a title without reserved code points, a copy of the shadow
\* posted by someone else, a deleted shadow, and HistoryLimit messages of
\* other users
HistoryKinds ==
    { ShadowFor("fA", 1), ShadowFor("fB", 1), ShadowFor("fA", 2), ShadowFor("fX", 1),
      BotMessage(<<>>),
      [ShadowFor("fA", 1) EXCEPT !.embeds[1].title = <<>>],
      [ShadowFor("fA", 1) EXCEPT !.embeds[1].title = DriveGet("fA").name],
      [ShadowFor("fA", 1) EXCEPT !.author = "user"],
      [ShadowFor("fA", 1) EXCEPT !.live = FALSE],
      ChatterBlock }

LocateInit ==
    /\ \E hist \in SeqsUpTo(HistoryKinds, MaxHistory) :
          channel = <<UserMessage(<<DriveLink("fA", "https", FALSE)>>)>> \o hist
    /\ handlers = [h \in Slots |-> IdleHandler]
    /\ events = 0
    /\ ghost = [i \in 1..Len(channel) |-> NewGhost]
    /\ codec = [CodecIdle EXCEPT !.pc = "in"]

LocateRun ==
    /\ codec.pc = "in"
    /\ codec' = [codec EXCEPT !.pc = "located", !.out = LocateOnce(channel, 1)]
    /\ UNCHANGED <<channel, handlers, events, ghost>>

LocateNext == LocateRun

LocateSpec == LocateInit /\ [][LocateNext]_vars

(***************************************************************************)
(* The retries of the lookup: up to two events on a message with or        *)
(* without its shadow, handled to the end                                  *)
(***************************************************************************)
RetryInit ==
    /\ channel \in {<<UserMessage(<<DriveLink("fA", "https", FALSE)>>)>>, SettledChannel}
    /\ handlers = [h \in Slots |-> IdleHandler]
    /\ events = 0
    /\ ghost = [i \in 1..Len(channel) |-> [NewGhost EXCEPT !.last = "ok"]]
    /\ codec = CodecIdle

RetryBegin ==
    /\ events <= 1
    /\ \/ \E c \in {<<>>, <<DriveLink("fB", "https", FALSE)>>} : UserEdit(1, c)
       \/ Command(1)
       \/ UserDelete(1)
       \/ BulkDelete(1..Len(channel))

RetryNext ==
    \/ RetryBegin
    \/ \E h \in Slots : LocFetch(h)
    \/ \E h \in Slots : LocWake(h)
    \/ \E h \in Slots : MetaGet(h)
    \/ \E h \in Slots : Send(h)
    \/ \E h \in Slots : Delete(h)
    \/ \E h \in Slots : Edit(h)
    \/ \E h \in Slots : SuppressCheck(h)
    \/ \E h \in Slots : Toggle(h)
    \/ \E h \in Slots, k \in 1..MaxBatch : LoopStart(h, k)
    \/ \E h \in Slots, k \in 1..MaxBatch : LoopFetch(h, k)
    \/ \E h \in Slots, k \in 1..MaxBatch : LoopDelete(h, k)

\* a history fetch of the handler is with the platform
AwaitsFetch(rec) ==
    \/ rec.pc = "run" /\ rec.loc = "fetch"
    \/ rec.pc = "loop" /\ \E k \in 1..Len(rec.batch) : rec.st[k] = "lookup"

\* every sleep ends, and a fetch that is with the platform is answered: weak
\* fairness of the fetch steps, which are enabled exactly when AwaitsFetch
RetrySpec ==
    /\ RetryInit /\ [][RetryNext]_vars
    /\ \A h \in Slots :
          /\ WF_vars(LocWake(h))
          /\ \/ []<>(~AwaitsFetch(handlers[h]))
             \/ []<><<LocFetch(h) \/ \E k \in 1..MaxBatch : LoopFetch(h, k)>>_vars

(***************************************************************************)
(* A shadow whose title makes decoding throw: two source messages with     *)
(* their shadows, one of them for the file named "\u2066X"; up to two      *)
(* events, handled to the end                                              *)
(***************************************************************************)
ThrowChannel(f, g) ==
    << [UserMessage(<<DriveLink(f, "https", FALSE)>>) EXCEPT !.suppressed = TRUE],
       ShadowFor(f, 1),
       [UserMessage(<<DriveLink(g, "https", FALSE)>>) EXCEPT !.suppressed = TRUE],
       ShadowFor(g, 3) >>

ThrowInit ==
    /\ channel \in {ThrowChannel("fA", "fX"), ThrowChannel("fX", "fA"),
                    ThrowChannel("fA", "fX") \o
                        << UserMessage(<<DriveLink("fB", "https", FALSE)>>), ShadowFor("fB", 5) >>}
    /\ handlers = [h \in Slots |-> IdleHandler]
    /\ events = 0
    /\ ghost = [i \in 1..Len(channel) |-> [NewGhost EXCEPT !.last = "ok"]]
    /\ codec = CodecIdle

ThrowBegin ==
    /\ events <= 1
    /\ \/ \E s \in {1, 3}, c \in {<<>>, <<DriveLink("fB", "https", FALSE)>>} : UserEdit(s, c)
       \/ \E s \in {1, 3} : Command(s)
       \/ \E s \in {1, 3} : UserDelete(s)
       \/ \E S \in SUBSET (1..Len(channel)) : Cardinality(S) <= MaxBatch /\ BulkDelete(S)

ThrowNext ==
    \/ ThrowBegin
    \/ \E h \in Slots : LocFetch(h)
    \/ \E h \in Slots : LocWake(h)
    \/ \E h \in Slots : MetaGet(h)
    \/ \E h \in Slots : Send(h)
    \/ \E h \in Slots : Delete(h)
    \/ \E h \in Slots : Edit(h)
    \/ \E h \in Slots : SuppressCheck(h)
    \/ \E h \in Slots : Toggle(h)
    \/ \E h \in Slots, k \in 1..MaxBatch : LoopStart(h, k)
    \/ \E h \in Slots, k \in 1..MaxBatch : LoopFetch(h, k)
    \/ \E h \in Slots, k \in 1..MaxBatch : LoopDelete(h, k)

ThrowSpec == ThrowInit /\ [][ThrowNext]_vars

(***************************************************************************)
(* Comparison: a source message with a shadow that was posted when the     *)
(* linked files had another name, link, type or modification time, or      *)
(* when the message linked one file more or less; then one event           *)
(***************************************************************************)
\* what the metadata provider answered for f at an earlier time
EarlierAnswers(f) ==
    LET now == DriveGet(f)
    IN { now,
         [now EXCEPT !.name = <<90>>],
         [now EXCEPT !.webViewLink = "viewOld"],
         [now EXCEPT !.mimeType = IF @ = "image/png"
                                  THEN "application/vnd.google-apps.document"
                                  ELSE "image/png"],
         [now EXCEPT !.modifiedTime = Rfc3339(0)] }

EarlierShadow(files, src) ==
    BotMessage([i \in 1..Len(files) |-> BuildEmbed(files[i], i, IdStr(src))])

DiffTexts ==
    { <<DriveLink("fA", "https", FALSE)>>,
      <<DriveLink("fA", "http", FALSE)>>,
      <<DriveLink("fA", "https", FALSE), DriveLink("fB", "https", FALSE)>> }

DiffInit ==
    /\ \E c \in DiffTexts, a \in EarlierAnswers("fA"), b \in EarlierAnswers("fB"),
          n \in 1..2 :
          channel = << [UserMessage(c) EXCEPT !.suppressed = TRUE],
                       EarlierShadow(SubSeq(<<a, b>>, 1, n), 1) >>
    /\ handlers = [h \in Slots |-> IdleHandler]
    /\ events = 0
    /\ ghost = [i \in 1..Len(channel) |-> [NewGhost EXCEPT !.last = "ok"]]
    /\ codec = CodecIdle

DiffBegin ==
    /\ events = 0
    /\ \/ \E c \in DiffTexts : UserEdit(1, c)
       \/ Command(1)

DiffNext ==
    \/ DiffBegin
    \/ \E h \in Slots : LocFetch(h)
    \/ \E h \in Slots : MetaGet(h)
    \/ \E h \in Slots : Edit(h)
    \/ \E h \in Slots : SuppressCheck(h)
    \/ \E h \in Slots : Toggle(h)

DiffSpec == DiffInit /\ [][DiffNext]_vars

(***************************************************************************)
(* Own messages: the platform also delivers the events of the bot's own    *)
(* messages: MessageCreate after a send, MessageUpdate after an edit,      *)
(* MessageDelete when a shadow is deleted, by the bot or by someone else   *)
(***************************************************************************)
\* a listener that returned at its isValidRequest check
Returned(kind, m) ==
    [IdleHandler EXCEPT !.kind = kind, !.pc = "done", !.src = m, !.batch = <<m>>]

\* Events.MessageCreate listener (main.ts 79-84)
MessageCreate(ch, m) ==
    IF ~isValidRequest(ch[m]) THEN Returned("Created", m)
    ELSE CausedBy(UpdateHandler("Created", ch, m, TRUE, FALSE), "platform", FALSE, FALSE)

\* Events.MessageUpdate listener (main.ts 86-102)
MessageUpdate(ch, m) ==
    IF ~isValidRequest(ch[m]) THEN Returned("Edited", m)
    ELSE CausedBy(UpdateHandler("Edited", ch, m, FALSE,
                      IsEmbedsSuppressedEvent(FALSE, ch[m].suppressed, ch[m].suppressed)),
                  "platform", ch[m].suppressed, ch[m].suppressed)

Shadows == {i \in 1..Len(channel) : channel[i].author = "bot"}

\* the event of a send of the bot
OwnCreate(m) ==
    /\ m \in Shadows
    /\ \E h \in Slots : <<"send", m>> \in handlers[h].acted
    /\ \A h \in Slots : ~(handlers[h].kind = "Created" /\ handlers[h].src = m)
    /\ Dispatch(MessageCreate(channel, m), channel)

\* the event of an edit of the bot
OwnUpdate(m) ==
    /\ m \in Shadows
    /\ \E h \in Slots : <<"edit", m>> \in handlers[h].acted
    /\ \A h \in Slots : ~(handlers[h].kind = "Edited" /\ handlers[h].src = m)
    /\ Dispatch(MessageUpdate(channel, m), channel)

\* the event of a delete of the bot, or a moderator deletes a shadow
OwnDelete(m) ==
    /\ m \in Shadows
    /\ \A h \in Slots : ~(handlers[h].kind = "Deleted" /\ handlers[h].batch = <<m>>)
    /\ LET ch == [channel EXCEPT ![m].live = FALSE]
       IN Dispatch(DeleteHandler("Deleted", ch, <<m>>), ch)

OwnInit ==
    /\ channel \in {<<>>, SettledChannel}
    /\ handlers = [h \in Slots |-> IdleHandler]
    /\ events = 0
    /\ ghost = [i \in 1..Len(channel) |-> [NewGhost EXCEPT !.last = "ok"]]
    /\ codec = CodecIdle

OwnBegin ==
    /\ events <= 1
    /\ \/ \E c \in FaultTexts : UserCreate(c)
       \/ \E c \in FaultTexts : UserEdit(1, c)
       \/ \E S \in SUBSET (1..Len(channel)) : Cardinality(S) <= MaxBatch /\ BulkDelete(S)

OwnNext ==
    \/ OwnBegin
    \/ \E m \in 1..Len(channel) : OwnCreate(m)
    \/ \E m \in 1..Len(channel) : OwnUpdate(m)
    \/ \E m \in 1..Len(channel) : OwnDelete(m)
    \/ \E h \in Slots : LocFetch(h)
    \/ \E h \in Slots : LocWake(h)
    \/ \E h \in Slots : MetaGet(h)
    \/ \E h \in Slots : Send(h)
    \/ \E h \in Slots : Delete(h)
    \/ \E h \in Slots : Edit(h)
    \/ \E h \in Slots : SuppressCheck(h)
    \/ \E h \in Slots : Toggle(h)
    \/ \E h \in Slots, k \in 1..MaxBatch : LoopStart(h, k)
    \/ \E h \in Slots, k \in 1..MaxBatch : LoopFetch(h, k)
    \/ \E h \in Slots, k \in 1..MaxBatch : LoopDelete(h, k)

OwnSpec == OwnInit /\ [][OwnNext]_vars

(***************************************************************************)
(* Vocabulary of the properties                                            *)
(***************************************************************************)
\* how many messages were ever posted after message s
RECURSIVE CountFrom(_)
CountFrom(i) == IF i > Len(channel) THEN 0 ELSE channel[i].count + CountFrom(i + 1)

PostedAfter(s) == CountFrom(s + 1)

\* a handler for message s is in progress
Busy(s) == \E h \in Slots : Active(h) /\ Involves(h, s)

\* the sends, edits and deletes a handler has issued
Requests(rec) == {a \in rec.acted : a[1] \in {"send", "edit", "delete"}}

\* the content links a file the metadata provider does not answer not-found for
HasResolvable(content) ==
    \E k \in 1..Len(content) :
        content[k].drive /\ DriveGet(content[k].fileId).status # "notFound"

\* a stored and a new embed list show something different
SemanticallyDiffer(stored, new) ==
    \/ Len(stored) # Len(new)
    \/ \E i \in 1..Len(stored) :
          \/ stored[i].title # new[i].title
          \/ stored[i].url # new[i].url
          \/ stored[i].color # new[i].color
          \/ stored[i].timestamp.instant # new[i].timestamp.instant

\* the lookup and the metadata of an update handler have both returned
Resolved(rec) == rec.kind \in {"Created", "Edited", "Command"} /\ rec.loc = "ret" /\ rec.meta = "ret"

(***************************************************************************)
(* C1                                                                      *)
(***************************************************************************)
\* C1 as stated: in every reachable state, under any interleaving of the
\* handlers, each source message has at most one live shadow message.
C1_AtMostOneShadow ==
    \A s \in Sources : Cardinality(ShadowsOf(s)) <= 1

(***************************************************************************)
(* C2                                                                      *)
(***************************************************************************)
\* C2: whenever no handler for a live source message is in progress and its
\* last handler completed without error, a shadow exists iff its content has a
\* file reference the provider resolves. Stated here only for source messages
\* whose handlers never overlapped and whose shadow cannot lie beyond the
\* lookup window, where races and the window do not explain a failure.
C2_ShadowIffResolvable ==
    \A s \in LiveSources :
        (/\ ~Busy(s) /\ ghost[s].last = "ok"
         /\ ~ghost[s].overlap /\ PostedAfter(s) <= HistoryLimit)
            => ((ShadowsOf(s) # {}) <=> HasResolvable(channel[s].content))

(***************************************************************************)
(* C3                                                                      *)
(***************************************************************************)
\* C3: the runs of updateEmbedsMessage on a source message that no user
\* edited issue at most one send and no edit or delete. Stated for runs that
\* follow one another (no overlap) with the shadow inside the lookup window.
C3_RerunIdempotent ==
    \A s \in LiveSources :
        (~ghost[s].changed /\ ~ghost[s].overlap /\ PostedAfter(s) <= HistoryLimit)
            => (ghost[s].sends <= 1 /\ ghost[s].edits = 0 /\ ghost[s].deletes = 0)

(***************************************************************************)
(* C4 (under CodecSpec)                                                    *)
(***************************************************************************)
\* C4: decode(encode(x)) = x, decodeAppendedInvisible(appendInvisible(v, x)) = x,
\* and the encoded tail has two reserved code points per UTF-8 byte of x.
C4_RoundTrip ==
    codec.pc = "decoded" =>
        /\ codec.direct.ok /\ codec.direct.val = codec.payload
        /\ codec.out.ok /\ codec.out.val = codec.payload
        /\ Len(codec.tail) = 2 * Len(TextEncode(codec.payload))
        /\ \A k \in 1..Len(codec.tail) : IsInvisible(codec.tail[k])

(***************************************************************************)
(* C5                                                                      *)
(***************************************************************************)
\* C5: a Created handler fetches no history; when it has completed it has sent
\* exactly one message, whose first embed title decodes to the source message
\* id, if a file reference resolved, and has sent nothing if none did.
C5_CreatedSendsDecodableShadow ==
    \A h \in Slots :
        LET r == handlers[h]
        IN r.kind = "Created" =>
            /\ r.nFetch = 0
            /\ r.pc = "done" =>
                 IF \E k \in 1..Len(r.refs) : DriveGet(r.refs[k].fileId).status = "ok"
                 THEN /\ \E m \in 1..Len(channel) : Requests(r) = {<<"send", m>>}
                      /\ LET d == decodeAppendedInvisible(r.new[1].title)
                         IN d.ok /\ d.val = IdStr(r.src)
                 ELSE Requests(r) = {}

C8_SameInstantNoEdit ==
    \A h \in Slots :
        LET r == handlers[h]
        IN (/\ Resolved(r) /\ r.old # 0 /\ r.new # <<>>
            /\ ~SemanticallyDiffer(r.oldEmbeds, r.new))
              => /\ r.pc # "edit"
                 /\ \A a \in r.acted : a[1] # "edit"

\* an Edited handler completed without a request although the stored timestamp
\* and the new one are different strings for the same instant
C8_Witness ==
    \E h \in Slots :
        LET r == handlers[h]
        IN /\ r.kind = "Edited" /\ r.pc = "done"
           /\ r.old # 0 /\ r.new # <<>>
           /\ ~SemanticallyDiffer(r.oldEmbeds, r.new)
           /\ r.oldEmbeds[1].timestamp # r.new[1].timestamp
           /\ DateParse(r.oldEmbeds[1].timestamp) = DateParse(r.new[1].timestamp)
           /\ Requests(r) = {}

(***************************************************************************)
(* C9                                                                      *)
(***************************************************************************)
\* C9: a source message that was deleted, and no handler of which is still in
\* progress, has no live shadow message.
C9_NoShadowAfterDelete ==
    \A s \in Sources :
        (~channel[s].live /\ ~Busy(s)) => ShadowsOf(s) = {}

(***************************************************************************)
(* C10 (under BulkSpec)                                                    *)
(***************************************************************************)
\* C10: a bulk-delete listener has at most one lookup or delete in flight, it
\* reaches a message of its batch only when the one before is finished, and
\* when it completes the shadows its messages had are gone and it has deleted
\* nothing else.
C10_BulkSequential ==
    \A h \in Slots :
        LET r == handlers[h]
        IN r.kind = "Bulk" =>
            /\ Cardinality({k \in 1..Len(r.st) : r.st[k] \in {"lookup", "delete"}}) <= 1
            /\ \A k \in 2..Len(r.st) :
                  r.st[k] # "wait" => r.st[k - 1] \in {"done", "skip"}
            /\ \A a \in r.acted : a[1] = "delete" /\ a[2] \in {p.msg : p \in r.pre}
            /\ r.pc = "done" => \A p \in r.pre : ~channel[p.msg].live

\* a batch of BulkBatch user messages, BulkShadowed of them with a shadow, was
\* processed: one lookup per message, and exactly the shadows deleted
C10_Witness ==
    \E h \in Slots :
        LET r == handlers[h]
        IN /\ r.kind = "Bulk" /\ r.pc = "done"
           /\ Len(r.batch) = BulkBatch
           /\ \A k \in 1..Len(r.batch) : channel[r.batch[k]].author = "user"
           /\ Cardinality(r.pre) = BulkShadowed
           /\ r.nFetch = BulkBatch
           /\ r.acted = {<<"delete", p.msg>> : p \in r.pre}

(***************************************************************************)
(* C11                                                                     *)
(***************************************************************************)
\* suppressEmbeds was called by the handler
RanSuppressor(rec) == <<"suppressor", rec.src>> \in rec.acted

\* the early return of updateEmbedsMessage: no old embeds message, no new one
Ignored(rec) ==
    rec.loc \in {"off", "ret"} /\ rec.meta = "ret" /\ rec.old = 0 /\ rec.new = <<>>

\* the handler reached the end of updateEmbedsMessage or its toggle request
PastSuppressor(rec) == rec.pc \in {"toggle", "done"}

C12_ChainEnds == events < MaxEvents

(***************************************************************************)
(* C13 (under DecideSpec)                                                  *)
(***************************************************************************)
\* the previews of message m, and those among them whose URL is, once
\* normalized, the normalized URL of a file link of its content
Previews(m) == DOMAIN m.embeds

MatchingPreviews(m) ==
    {k \in Previews(m) :
        /\ m.embeds[k].url # NoUrl
        /\ \E j \in 1..Len(m.content) :
              /\ m.content[j].drive
              /\ normalizeUrl(m.content[j].url) = normalizeUrl(m.embeds[k].url)}

\* what the handler decided: the flag it is about to request, or the flag the
\* message has when it requested nothing
Decision(rec) ==
    IF rec.pc = "toggle" THEN rec.want ELSE channel[rec.src].suppressed

\* C13: the decision of the Suppressor is to suppress iff the message has a
\* native preview and every native preview matches a file link of the content.
C13_SuppressIffAllMatch ==
    \A h \in Slots :
        LET r == handlers[h]
            m == channel[r.src]
        IN (r.kind = "Command" /\ RanSuppressor(r) /\ r.pc \in {"toggle", "done"}
            /\ <<"toggle", r.src>> \notin r.acted)
              => (Decision(r) <=> (Previews(m) # {} /\ MatchingPreviews(m) = Previews(m)))

\* a preview that matches a file link and a second one that matches none: the
\* decision is not to suppress
C13_Witness ==
    \E h \in Slots :
        LET r == handlers[h]
            m == channel[r.src]
        IN /\ r.kind = "Command" /\ RanSuppressor(r) /\ r.pc \in {"toggle", "done"}
           /\ <<"toggle", r.src>> \notin r.acted
           /\ Cardinality(Previews(m)) = 2 /\ Cardinality(MatchingPreviews(m)) = 1
           /\ ~Decision(r)

(***************************************************************************)
(* C14 (under DecideSpec)                                                  *)
(***************************************************************************)
\* the Suppressor's decision for message m, stated on the message itself
AllPreviewsMatch(m) == Previews(m) # {} /\ MatchingPreviews(m) = Previews(m)

\* C14: the Suppressor goes on to a toggle request, for its decision, only
\* when the decision differs from the flag of the message; when they are
\* equal it returns with nothing requested and the channel as it was. The
\* flag of a message changes only by the request of a handler that went on.
C14_ToggleOnlyOnDifference ==
    [][ /\ \A h \in Slots :
              (handlers[h].pc = "suppress" /\ ~handlers[h].isEmbedsSuppressed
               /\ handlers'[h] # handlers[h])
                => LET m == channel[handlers[h].src]
                   IN IF AllPreviewsMatch(m) = m.suppressed
                      THEN /\ handlers'[h].pc = "done"
                           /\ <<"toggle", handlers[h].src>> \notin handlers'[h].acted
                           /\ channel' = channel
                      ELSE /\ handlers'[h].pc = "toggle"
                           /\ handlers'[h].want = AllPreviewsMatch(m)
                           /\ channel' = channel
        /\ \A s \in DOMAIN channel :
              channel'[s].suppressed # channel[s].suppressed
                => \E h \in Slots :
                      /\ handlers[h].pc = "toggle" /\ handlers[h].src = s
                      /\ handlers[h].want = channel'[s].suppressed
      ]_vars

\* the Suppressor ran on a message whose previews all match and whose flag is
\* set already: nothing was requested
C14_Witness ==
    \E h \in Slots :
        LET r == handlers[h]
        IN /\ r.pc = "done" /\ RanSuppressor(r)
           /\ <<"toggle", r.src>> \notin r.acted
           /\ channel[r.src].suppressed /\ AllPreviewsMatch(channel[r.src])

(***************************************************************************)
(* C15                                                                     *)
(***************************************************************************)
\* the handler's message links files, and every one of them is not found
OnlyDeadLinks(rec) ==
    /\ rec.refs # <<>>
    /\ \A k \in 1..Len(rec.refs) : DriveGet(rec.refs[k].fileId).status = "notFound"

\* the handler requested, or is about to request, suppression of the previews
TurnsSuppressionOn(rec) == rec.want /\ (rec.pc = "toggle" \/ <<"toggle", rec.src>> \in rec.acted)

\* C15: a Created or Edited handler of a message whose only links are not
\* found never turns suppression on, and once it has completed the message
\* has no shadow for as long as its content stays the same. Stated for
\* messages whose shadow cannot lie beyond the lookup window.
C15_DeadLinksLikeNoLinks ==
    \A h \in Slots :
        LET r == handlers[h]
        IN (r.kind \in {"Created", "Edited"} /\ OnlyDeadLinks(r))
              => /\ ~TurnsSuppressionOn(r)
                 /\ (/\ r.pc = "done"
                     /\ extractFileIds(channel[r.src].content) = r.refs
                     /\ PostedAfter(r.src) <= HistoryLimit
                     /\ Cardinality(r.pre) <= 1)
                       => ShadowsOf(r.src) = {}


(***************************************************************************)
(* C16 (under ResolveSpec)                                                 *)
(***************************************************************************)
\* the file references the provider answers with a file, in text order
Answered(refs) == SelectSeq(refs, LAMBDA x : DriveGet(x.fileId).status = "ok")

\* the provider fails for a reference, or answers with a file that lacks a field
Broken(refs) ==
    \E k \in 1..Len(refs) :
        LET a == DriveGet(refs[k].fileId)
        IN \/ a.status = "error"
           \/ a.status = "ok" /\ (a.name = <<>> \/ a.webViewLink = "" \/ a.mimeType = ""
                                   \/ a.modifiedTime.fmt = "absent")

\* embeds shows the files of refs, one embed each, in the order of refs
ShowsInOrder(embeds, refs) ==
    /\ Len(embeds) = Len(refs)
    /\ \A i \in 1..Len(refs) : embeds[i].url = DriveGet(refs[i].fileId).webViewLink

\* C16: the embeds a handler computes, and those of the message it sends or
\* edits, are one per reference the provider answered, in text order, repeated
\* references kept; the resolution fails (the handler fails with no answer of
\* its lookup in) only for a broken reference, never for one not found.
C16_OneEmbedPerAnsweredRef ==
    \A h \in Slots :
        LET r == handlers[h]
        IN r.kind \in {"Created", "Edited"} =>
            /\ r.meta = "ret" => ShowsInOrder(r.new, Answered(r.refs))
            /\ \A a \in Requests(r) :
                  (a[1] \in {"send", "edit"} /\ channel[a[2]].live)
                    => ShowsInOrder(channel[a[2]].embeds, Answered(r.refs))
            /\ (r.pc = "failed" /\ r.meta = "get" /\ r.nFetch = 0) => Broken(r.refs)

\* three references, the first and the last to the same file, the middle one
\* not found: the shadow sent shows the file twice
C16_Witness ==
    \E h \in Slots :
        LET r == handlers[h]
        IN /\ r.kind = "Created" /\ r.pc = "done"
           /\ Len(r.refs) = 3 /\ r.refs[1].fileId = r.refs[3].fileId
           /\ DriveGet(r.refs[2].fileId).status = "notFound"
           /\ \E m \in 1..Len(channel) :
                 /\ Requests(r) = {<<"send", m>>}
                 /\ Len(channel[m].embeds) = 2
                 /\ channel[m].embeds[1].url = channel[m].embeds[2].url

(***************************************************************************)
(* C17                                                                     *)
(***************************************************************************)
\* C17: a handler whose references include one answered with an error other
\* than not-found, or a file without name, view link, MIME type or modified
\* time, never gets embeds from the resolution and never completes; it has
\* requested no send, edit or delete, has not run the Suppressor and has
\* requested no toggle.
C17_BrokenReferenceFailsClean ==
    \A h \in Slots :
        LET r == handlers[h]
        IN (r.kind \in {"Created", "Edited"} /\ Broken(r.refs)) =>
             /\ r.acted = {}
             /\ r.meta = "get"
             /\ r.pc \in {"run", "failed"}

\* the shadow of a message edited to link a file without modified time is
\* left as it was, and the handler has failed
C17_Witness ==
    /\ Len(channel) = 2 /\ channel[2].live
    /\ channel[2].embeds = SettledChannel[2].embeds
    /\ \E h \in Slots :
           LET r == handlers[h]
           IN /\ r.kind = "Edited" /\ r.pc = "failed" /\ r.src = 1
              /\ Len(r.refs) = 2
              /\ r.refs[1].fileId = "fB" /\ r.refs[2].fileId = "fT"

(***************************************************************************)
(* C18                                                                     *)
(***************************************************************************)
\* C18 as stated: once an Edited handler for a source message that had two
\* live shadows at the event has completed, at most one live shadow of that
\* source message remains.
C18_DuplicateHealsOnEdit ==
    \A h \in Slots :
        LET r == handlers[h]
        IN (r.kind = "Edited" /\ r.pc = "done" /\ Cardinality(r.pre) = 2)
              => Cardinality(ShadowsOf(r.src)) <= 1

(***************************************************************************)
(* C19                                                                     *)
(***************************************************************************)
\* what the handler did to the shadow before its toggle failed is still there
KeepsEffects(rec) ==
    \A a \in Requests(rec) :
        IF a[1] = "delete" THEN ~channel[a[2]].live
        ELSE channel[a[2]].live /\ channel[a[2]].embeds = BotMessage(rec.new).embeds

\* the handler of the later edit; it runs in the slot of the failed one
LaterEdit(rec) == events >= 2 /\ rec.kind = "Edited" /\ rec.cause = "user"

\* the live messages of the bot posted before message m; the channel of
\* FaultSpec has one source message, all of them are its shadows
EarlierShadows(m) == {i \in 1..(m - 1) : channel[i].author = "bot" /\ channel[i].live}

\* C19 as stated: when the toggle of a handler has failed, the send, edit or
\* delete it had made stays as made; and the handler of a later edit of the
\* message completes its lookup without error and sends no shadow while an
\* earlier one is live.
C19_NoRollbackAndRelocated ==
    \A h \in Slots :
        LET r == handlers[h]
        IN /\ (events = 1 /\ ToggleFailed(r)) => KeepsEffects(r)
           /\ LaterEdit(r) =>
                 /\ \A a \in r.acted : a[1] = "send" => EarlierShadows(a[2]) = {}
                 /\ ~(r.pc = "failed" /\ r.loc = "fetch")

(***************************************************************************)
(* C20                                                                     *)
(***************************************************************************)
\* the embeds after the first are titled with the bare file names
OnlyFirstCarriesId(rec) ==
    \A k \in 2..Len(rec.new) :
        rec.new[k].title = DriveGet(Answered(rec.refs)[k].fileId).name

\* C20 as stated: for every shadow a handler has sent or edited, the titles of
\* the embeds after the first are the file names, and the title of the first
\* decodes, as the lookup decodes it, to the id of the source message,
\* whatever the first file is named.
C20_FirstTitleDecodesToSource ==
    \A h \in Slots :
        LET r == handlers[h]
        IN (\E a \in Requests(r) : a[1] \in {"send", "edit"}) =>
              /\ OnlyFirstCarriesId(r)
              /\ decodeAppendedInvisible(r.new[1].title) = [ok |-> TRUE, val |-> IdStr(r.src)]

(***************************************************************************)
(* C21                                                                     *)
(***************************************************************************)
\* the {url, fileId} pairs of the well-formed links written, in the order
\* they were written
WellFormedPairs(links) ==
    LET good == SelectSeq(links, LAMBDA l : l.wellFormed)
    IN [k \in 1..Len(good) |-> [url |-> good[k].text, fileId |-> good[k].fileId]]

\* C21 as stated: extraction returns one {url, fileId} pair for each link
\* written with an identifier of MinIdLen characters or more, in the order
\* written, a link written twice twice, and nothing for a link with a shorter
\* identifier.
C21_ExtractsWellFormedInOrder ==
    codec.pc = "extracted" => codec.out = WellFormedPairs(codec.links)

(***************************************************************************)
(* C22                                                                     *)
(***************************************************************************)
\* the first embed of message i has a title
Titled(i) == channel[i].embeds # <<>> /\ channel[i].embeds[1].title # <<>>

\* message i is by the bot and the title of its first embed decodes to the
\* id of source message s
Matches(i, s) ==
    /\ channel[i].author = "bot" /\ Titled(i)
    /\ decodeAppendedInvisible(channel[i].embeds[1].title) = [ok |-> TRUE, val |-> IdStr(s)]

\* message i is by the bot and decoding the title of its first embed throws
Throws(i) ==
    /\ channel[i].author = "bot" /\ Titled(i)
    /\ ~decodeAppendedInvisible(channel[i].embeds[1].title).ok

\* the messages a fetch after s returns
Window(s) == Range(FetchHistory(channel, s))

Looking(rec) == rec.pc = "run" /\ rec.loc \in {"fetch", "sleep"}

\* the fetches and waits of a lookup with budget n, at any point of it
WithinBudget(rec, n) ==
    /\ rec.nSleep <= n /\ rec.nFetch <= n + 1
    /\ rec.retries = n - rec.nSleep
    /\ rec.loc = "fetch" => rec.nFetch = rec.nSleep
    /\ rec.loc = "sleep" => rec.nFetch = rec.nSleep + 1 /\ rec.retries > 0 /\ rec.old = 0
    /\ rec.loc = "ret" =>
          /\ rec.nFetch = rec.nSleep + 1
          /\ rec.old = 0 => rec.nSleep = n

\* the fetches of a delete listener: one for each message it has looked up
OneFetchEach(rec) ==
    /\ rec.nSleep = 0
    /\ rec.nFetch = Cardinality({k \in 1..Len(rec.batch) : rec.st[k] \in {"delete", "done"}})
                      + (IF rec.pc = "failed" /\ \E k \in 1..Len(rec.batch) : rec.st[k] = "lookup"
                         THEN 1 ELSE 0)

\* C23: the lookup of an Edited (or command) handler makes at most
\* UpdateRetries + 1 fetches and UpdateRetries waits, waits only after a fetch
\* that found nothing while budget remains, and returns on the first fetch
\* that finds the shadow; the lookups of the delete listeners make one fetch
\* per message and never wait; and every lookup under way comes to an end.
C23_LookupBoundedAndEnds ==
    /\ [](\A h \in Slots :
            LET r == handlers[h]
            IN /\ r.kind \in {"Edited", "Command"} => WithinBudget(r, UpdateRetries)
               /\ r.kind \in {"Deleted", "Bulk"} => OneFetchEach(r) /\ DeleteRetries = 0)
    /\ \A h \in Slots :
          /\ Looking(handlers[h]) ~> ~Looking(handlers[h])
          /\ \A k \in 1..MaxBatch :
                (handlers[h].pc = "loop" /\ k <= Len(handlers[h].batch)
                    /\ handlers[h].st[k] = "lookup")
                ~> ~(handlers[h].pc = "loop" /\ k <= Len(handlers[h].batch)
                       /\ handlers[h].st[k] = "lookup")

\* an Edited handler has used its whole budget and found nothing
C23_Witness ==
    \E h \in Slots :
        LET r == handlers[h]
        IN /\ r.kind = "Edited" /\ r.loc = "ret" /\ r.old = 0
           /\ r.nFetch = UpdateRetries + 1 /\ r.nSleep = UpdateRetries

(***************************************************************************)
(* C24                                                                     *)
(***************************************************************************)
\* message i is by the bot and has no embed, no title, or a title without
\* any of the reserved code points
Plain(i) ==
    /\ channel[i].author = "bot"
    /\ Titled(i) => \A k \in 1..Len(channel[i].embeds[1].title) :
                         ~IsInvisible(channel[i].embeds[1].title[k])

\* C24: the lookup passes over the plain messages of the bot without error:
\* it returns a shadow that only plain messages of the bot precede in the
\* window, returns none when the bot's messages of the window are all plain,
\* and never returns a plain message.
C24_PlainTitleIsNoMatch ==
    codec.pc = "located" =>
        LET bots == {i \in Window(1) : channel[i].author = "bot"}
        IN /\ (\A i \in bots : Plain(i)) => codec.out = [status |-> "none", msg |-> 0]
           /\ \A j \in bots :
                 (Matches(j, 1) /\ \A i \in bots : i < j => Plain(i))
                    => codec.out = [status |-> "found", msg |-> j]
           /\ codec.out.status = "found" => ~Plain(codec.out.msg)

\* the lookup passed over a message of the bot with a plain title and one
\* without embeds and returned the shadow after them
C24_Witness ==
    /\ codec.pc = "located" /\ Len(channel) = 4
    /\ Plain(2) /\ Titled(2) /\ Plain(3) /\ ~Titled(3)
    /\ codec.out = [status |-> "found", msg |-> 4]

(***************************************************************************)
(* C25                                                                     *)
(***************************************************************************)
\* message i is by the bot, and in the title of its first embed a character
\* that is not reserved comes after a reserved one
Spoiled(i) ==
    /\ channel[i].author = "bot" /\ Titled(i)
    /\ LET t == channel[i].embeds[1].title
       IN \E j, k \in 1..Len(t) : j < k /\ IsInvisible(t[j]) /\ ~IsInvisible(t[k])

\* a lookup for source message s decodes a spoiled title: a spoiled message
\* of the window has no shadow of s and no other spoiled message before it
MeetsSpoiled(s) ==
    \E i \in Window(s) :
        /\ Spoiled(i)
        /\ \A j \in Window(s) : j < i => ~Matches(j, s)

\* the handler failed in a lookup
LookupFailed(rec) ==
    /\ rec.pc = "failed"
    /\ \/ rec.kind \in {"Edited", "Command"} /\ rec.loc = "fetch"
       \/ rec.kind \in {"Deleted", "Bulk"} /\ \E k \in 1..Len(rec.batch) : rec.st[k] = "lookup"

\* C25 as stated: decoding a spoiled title fails, and a handler that failed in
\* its lookup has issued no send, edit or delete.
C25_ThrownLookupLeavesNoTrace ==
    /\ \A i \in 1..Len(channel) :
          Spoiled(i) => ~decodeAppendedInvisible(channel[i].embeds[1].title).ok
    /\ \A h \in Slots : LookupFailed(handlers[h]) => Requests(handlers[h]) = {}

\* C25 amended: decoding a spoiled title fails; a fetch of an Edited, command
\* or delete handler that meets a spoiled title makes the handler fail, with
\* no request issued by that step; an Edited or Deleted handler that failed in
\* its lookup has issued no send, edit or delete, and a bulk delete handler
\* that failed in a lookup has issued only the deletes for the messages
\* before it in the batch.
C25_ThrownLookupFailsHandler ==
    /\ [](\A i \in 1..Len(channel) :
            Spoiled(i) => ~decodeAppendedInvisible(channel[i].embeds[1].title).ok)
    /\ [](\A h \in Slots :
            LET r == handlers[h]
            IN LookupFailed(r) =>
                 /\ r.kind # "Bulk" => Requests(r) = {}
                 /\ \A a \in Requests(r) :
                       /\ a[1] = "delete"
                       /\ \E k \in 1..Len(r.batch) : r.st[k] = "done" /\ r.found[k] = a[2])
    /\ [][\A h \in Slots :
            LET r == handlers[h]
                fetched == /\ handlers'[h].nFetch = r.nFetch + 1
                           /\ handlers'[h].kind = r.kind
                s == IF r.kind \in {"Edited", "Command"} THEN r.src
                     ELSE r.batch[CHOOSE k \in 1..Len(r.batch) : r.st[k] = "lookup"]
            IN (fetched /\ MeetsSpoiled(s)) =>
                  /\ LookupFailed(handlers'[h])
                  /\ handlers'[h].acted = r.acted
                  /\ channel' = channel]_vars

\* an Edited handler failed in its first fetch, on the spoiled shadow of its
\* source message, and has issued nothing
C25_Witness ==
    \E h \in Slots :
        LET r == handlers[h]
        IN /\ r.kind = "Edited" /\ LookupFailed(r) /\ r.nFetch = 1
           /\ r.acted = {}
           /\ MeetsSpoiled(r.src)

(***************************************************************************)
(* C26                                                                     *)
(***************************************************************************)
\* the handler has issued, or is about to issue, an edit of the shadow found
EditsShadow(rec) == rec.pc = "edit" \/ <<"edit", rec.old>> \in rec.acted

C26_EditedForInstant ==
    \E h \in Slots :
        LET r == handlers[h]
        IN /\ r.kind = "Edited" /\ r.pc = "done" /\ Resolved(r)
           /\ r.old # 0 /\ Len(r.new) = 2 /\ Len(r.oldEmbeds) = 2
           /\ deepMatch(WithoutTimestamp(r.new[1]), r.oldEmbeds[1])
           /\ deepMatch(WithoutTimestamp(r.new[2]), r.oldEmbeds[2])
           /\ DateParse(r.oldEmbeds[1].timestamp) = DateParse(r.new[1].timestamp)
           /\ DateParse(r.oldEmbeds[2].timestamp) # DateParse(r.new[2].timestamp)
           /\ Requests(r) = {<<"edit", r.old>>}

(***************************************************************************)
(* C27                                                                     *)
(***************************************************************************)
\* message m was sent by the bot for source message s: the title of its first
\* embed is the name of a file followed by the encoding of the id of s
BuiltFor(m, s) ==
    /\ channel[m].author = "bot" /\ Titled(m)
    /\ \E f \in FileIds :
          channel[m].embeds[1].title = appendInvisible(DriveGet(f).name, IdStr(s))

\* the source message a lookup of the handler is for
LookupSource(rec) ==
    IF rec.kind \in {"Deleted", "Bulk"}
    THEN rec.batch[CHOOSE k \in 1..Len(rec.batch) : rec.st[k] = "lookup"]
    ELSE rec.src

\* the messages the lookups of the handler have returned
Located(rec) ==
    IF rec.kind \in {"Deleted", "Bulk"}
    THEN {rec.found[k] : k \in {j \in 1..Len(rec.batch) : rec.st[j] \in {"delete", "done"}}} \ {0}
    ELSE {rec.old} \ {0}

\* C27: a message a lookup returns is, when the Locator reads it, authored by
\* the bot, has a first embed whose title decodes to the id of the source
\* message the lookup is for, and was sent for that source message; and every
\* edit or delete a handler issues is for a message one of its lookups
\* returned, which is authored by the bot.
C27_OnlyOwnShadowTouched ==
    /\ [][\A h \in Slots :
            LET r == handlers[h]
            IN (handlers'[h].nFetch = r.nFetch + 1) =>
                  \A m \in Located(handlers'[h]) \ Located(r) :
                      /\ Matches(m, LookupSource(r))
                      /\ BuiltFor(m, LookupSource(r))]_vars
    /\ [](\A h \in Slots :
            \A a \in handlers[h].acted :
                a[1] \in {"edit", "delete"} =>
                   /\ a[2] \in Located(handlers[h])
                   /\ channel[a[2]].author = "bot")

\* a handler for the later of two source messages that both have a shadow
\* has edited or deleted the shadow of its own source message
C27_Witness ==
    \E h \in Slots, s, t \in 1..Len(channel) :
        LET r == handlers[h]
        IN /\ s < t /\ channel[s].author = "user" /\ channel[t].author = "user"
           /\ \E m \in (s+1)..(t-1) : channel[m].author = "bot"
           /\ \E a \in r.acted :
                 /\ a[1] \in {"edit", "delete"} /\ a[2] > t
                 /\ (r.src = t \/ \E k \in 1..Len(r.batch) : r.batch[k] = t /\ r.found[k] = a[2])

(***************************************************************************)
(* C28                                                                     *)
(***************************************************************************)
\* the handler answers a Created or Edited event of a message of the bot
OfOwnMessage(rec) ==
    rec.kind \in {"Created", "Edited"} /\ channel[rec.src].author = "bot"

\* the messages of the batch of a delete handler that a user wrote
ForeignOf(rec) == {k \in 1..Len(rec.batch) : channel[rec.batch[k]].author # "bot"}

\* C28: a handler of a Created or Edited event of a message of the bot has
\* returned without a history fetch, a metadata request, a send, an edit, a
\* delete or a toggle; a handler of a Deleted or BulkDeleted event fetches
\* the history at most once for each message of its batch that is not the
\* bot's, skips the bot's messages, and deletes only what it located for a
\* message that is not the bot's.
C28_OwnMessagesIgnored ==
    \A h \in Slots :
        LET r == handlers[h]
        IN /\ OfOwnMessage(r) =>
                /\ r.pc = "done" /\ r.loc = "off" /\ r.meta = "off"
                /\ r.nFetch = 0 /\ r.nSleep = 0 /\ r.acted = {}
           /\ r.kind \in {"Deleted", "Bulk"} =>
                /\ \A k \in 1..Len(r.batch) :
                      channel[r.batch[k]].author = "bot" =>
                         r.st[k] \in {"wait", "skip"} /\ r.found[k] = 0
                /\ r.nFetch <= Cardinality(ForeignOf(r))
                /\ \A a \in r.acted :
                      \E k \in ForeignOf(r) : a = <<"delete", r.found[k]>>

\* the event of a send or an edit of the bot and the event of the delete of a
\* shadow have each been answered by a listener that returned at once
C28_Witness ==
    /\ \E h \in Slots : OfOwnMessage(handlers[h]) /\ handlers[h].pc = "done"
    /\ \E h \in Slots :
          LET r == handlers[h]
          IN /\ r.kind = "Deleted" /\ r.pc = "done"
             /\ channel[r.batch[1]].author = "bot" /\ r.st = <<"skip">>

(***************************************************************************)
(* C29 (under DecideSpec)                                                  *)
(***************************************************************************)
\* the Suppressor of the handler is about to run on a message whose flag is
\* set and which has no native preview
RunsOnBareSuppressed(rec) ==
    /\ rec.pc = "suppress" /\ ~rec.isEmbedsSuppressed
    /\ channel[rec.src].suppressed /\ channel[rec.src].embeds = <<>>

\* C29: when the Suppressor runs on a message whose suppression flag is set
\* and whose list of native previews is empty, it decides false and goes on
\* to a toggle request, and that request clears the flag of the message.
C29_BareSuppressedIsCleared ==
    [][\A h \in Slots :
          LET r == handlers[h]
          IN /\ (RunsOnBareSuppressed(r) /\ handlers'[h] # r) =>
                   /\ handlers'[h].pc = "toggle" /\ ~handlers'[h].want
                   /\ <<"suppressor", r.src>> \in handlers'[h].acted
             /\ (r.pc = "toggle" /\ ~r.want /\ channel[r.src].live /\ handlers'[h] # r) =>
                   /\ <<"toggle", r.src>> \in handlers'[h].acted
                   /\ ~channel'[r.src].suppressed]_vars

\* the command ran on a message with the flag set and no native preview, and
\* the toggle of its Suppressor has cleared the flag
C29_Witness ==
    \E h \in Slots :
        LET r == handlers[h]
        IN /\ r.kind = "Command" /\ r.flags = <<TRUE, TRUE>>
           /\ <<"suppressor", r.src>> \in r.acted /\ <<"toggle", r.src>> \in r.acted
           /\ ~r.want
           /\ channel[r.src].embeds = <<>> /\ ~channel[r.src].suppressed

(***************************************************************************)
(* C30                                                                     *)
(***************************************************************************)
\* the handler of a bulk delete failed at the k-th message of its batch
FailedAt(rec, k) ==
    /\ rec.kind = "Bulk" /\ rec.pc = "failed"
    /\ k \in 1..Len(rec.batch) /\ rec.st[k] \in {"lookup", "delete"}

\* C30: a bulk delete handler that failed, locating or deleting the shadow of
\* the k-th message of its batch, is through with the messages before the
\* k-th, whose shadows it deleted are not live, and has not started on the
\* messages after the k-th: no lookup and no delete request for them; and a
\* failed handler takes no further step.
C30_BulkStopsAtFailure ==
    /\ [](\A h \in Slots : \A k \in 1..MaxBatch :
            LET r == handlers[h]
            IN FailedAt(r, k) =>
                 /\ \A j \in 1..(k - 1) :
                       /\ r.st[j] \in {"done", "skip"}
                       /\ <<"delete", r.found[j]>> \in r.acted => ~channel[r.found[j]].live
                 /\ \A j \in (k + 1)..Len(r.batch) : r.st[j] = "wait" /\ r.found[j] = 0
                 /\ r.acted \subseteq {<<"delete", r.found[j]>> : j \in 1..k}
                 /\ r.nFetch <= k)
    /\ [][\A h \in Slots :
            (handlers[h].kind = "Bulk" /\ handlers[h].pc = "failed"
             /\ handlers'[h].kind = "Bulk" /\ handlers'[h].batch = handlers[h].batch)
               => handlers'[h] = handlers[h]]_vars

\* a bulk delete of three source messages deleted the shadow of the first,
\* failed locating the shadow of the second, and the shadow of the third is
\* still there
C30_Witness ==
    \E h \in Slots :
        LET r == handlers[h]
        IN /\ FailedAt(r, 2) /\ Len(r.batch) = 3 /\ r.st = <<"done", "lookup", "wait">>
           /\ r.acted = {<<"delete", r.found[1]>>} /\ ~channel[r.found[1]].live
           /\ \E m \in 1..Len(channel) :
                 m > r.batch[3] /\ channel[m].live /\ BuiltFor(m, r.batch[3])

\* a bulk delete failed deleting a shadow that an Edited handler deleted
\* after the bulk delete handler located it
C30_DeleteFailed ==
    \E h \in Slots, k \in 1..MaxBatch :
        FailedAt(handlers[h], k) /\ handlers[h].st[k] = "delete"

====
